---- MODULE Spec2Model ----
(***************************************************************************)
(* LoreWeaver backend: the scene-generation pipeline                       *)
(* (orchestrator/pipeline.py), the capability adapters it is wired to      *)
(* (llm/groq_client.py as Planner and Critic, llm/local_llm.py as          *)
(* Executor), the State Committer (memory/state_updater.py) and the HTTP   *)
(* operations that touch a project's scenes (main.py, projects/router.py). *)
(*                                                                         *)
(* Python values are encoded so that TLC can compare them:                 *)
(*   - a JSON value parsed by json.loads is a record Json(...) holding its *)
(*     type, the set of its keys and the values of the keys the code reads *)
(*     ("None" for an absent key);                                         *)
(*   - a JSON scalar is the string of its JSON text: "true", "false",      *)
(*     "null", "0", "\"false\"" (the JSON string false), ...               *)
(*   - a draft text is a record [kind, n]: what produced it and by which   *)
(*     Executor call.                                                      *)
(***************************************************************************)
EXTENDS Integers, Sequences, FiniteSets, TLC

\* ------------------------------------------------------------------ bounds
MaxRetries == 2       \* max_retries is drawn from 0..MaxRetries
MaxRuns == 1          \* invocations of generate_next_scene per behaviour
InitScenes == 2       \* Scenes the store may already hold when the service starts
MaxRequests == 3      \* HTTP requests answered per behaviour
MaxRaceRequests == 2  \* HTTP requests made per behaviour when they are handled concurrently
MaxSceneRequests == 2 \* HTTP requests made per behaviour when all the operations are open

\* ------------------------------------------------------------- JSON values
NoneVal == "None"

Json(type, keys, approved, metrics, error, intent) ==
    [type |-> type, keys |-> keys, approved |-> approved, metrics |-> metrics,
     error |-> error, intent |-> intent]

\* {} : the empty dict critic_report starts as
EmptyDict == Json("object", {}, NoneVal, NoneVal, NoneVal, NoneVal)

\* key in d  (for a list: membership of the string among its elements; the
\* lists enumerated here hold no such element)
Has(d, key) == d.type = "object" /\ key \in d.keys

\* bool(v) of a parsed JSON scalar
Truthy(v) == v \notin {NoneVal, "null", "false", "0", "\"\""}

\* the three fields of the outline schema
OutlineFields == {"intent_summary", "target_emotional_shift", "required_actions"}

\* ----------------------------------------------------------- environment
\* What the Groq chat completion answers to plan_scene: a transport failure
\* (the SDK raises), or a message whose content is raw text.
PlannerReplies ==
    { [kind |-> "transport", json |-> EmptyDict],
      [kind |-> "not_json",  json |-> EmptyDict],
      [kind |-> "json", json |-> Json("object", OutlineFields, NoneVal, NoneVal, NoneVal, "intent")],
      [kind |-> "json", json |-> Json("object", {"target_emotional_shift"}, NoneVal, NoneVal, NoneVal, NoneVal)],
      [kind |-> "json", json |-> Json("object", {"intent_summary"}, NoneVal, NoneVal, NoneVal, "intent")],
      [kind |-> "json", json |-> Json("object", {"error"}, NoneVal, NoneVal, "model says no", NoneVal)],
      [kind |-> "json", json |-> Json("array", {}, NoneVal, NoneVal, NoneVal, NoneVal)] }

\* the values the critic's JSON may give "approved"
ApprovedJson == {"true", "false", "null", "\"false\""}

\* two metric records: a perfect one and a poor one
MetricsJson == {"tas=1.0,flags=0,drift=[]", "tas=0.0,flags=2,drift=[x]"}

CriticReplies ==
    { [kind |-> "transport", json |-> EmptyDict],
      [kind |-> "not_json",  json |-> EmptyDict],
      [kind |-> "json", json |-> Json("array", {}, NoneVal, NoneVal, NoneVal, NoneVal)] }
    \cup { [kind |-> "json",
            json |-> Json("object", {"approved", "metrics", "justification"}, a, m, NoneVal, NoneVal)]
           : a \in ApprovedJson, m \in MetricsJson }
    \cup { [kind |-> "json",
            json |-> Json("object", {"metrics", "justification"}, NoneVal, m, NoneVal, NoneVal)]
           : m \in MetricsJson }

\* the user_prompt every request carries
UserPrompt == "They meet at the inn."

\* the characters_freetext every request carries
RequestFreetext == "Ana is bold."

\* what Ollama answers to the Executor's request
ExecutorReplies == {"ok", "transport"}

\* how the two writes of commit_scene end
CommitOutcomes == {"ok", "vector_fail", "db_fail"}

Locations == {"Inn", "Unspecified"}

\* --------------------------------------------------- capability adapters
\* A call's outcome: either the value returned or an exception raised.
Returned(v) == [raised |-> FALSE, value |-> v]
Raised == [raised |-> TRUE, value |-> EmptyDict]

\* GroqClient.plan_scene: the completion call is outside the try block; only
\* json.loads is guarded.
plan_scene(reply) ==
    CASE reply.kind = "transport" -> Raised
      [] reply.kind = "not_json" ->
            Returned(Json("object", {"error"}, NoneVal, NoneVal, "Failed to parse JSON outline", NoneVal))
      [] OTHER -> Returned(reply.json)

\* GroqClient.evaluate_consistency: same shape.
evaluate_consistency(reply) ==
    CASE reply.kind = "transport" -> Raised
      [] reply.kind = "not_json" ->
            Returned(Json("object", {"approved", "error"}, "false", NoneVal, "Critic evaluation failed", NoneVal))
      [] OTHER -> Returned(reply.json)

\* LocalLLMClient.generate_scene: a request failure becomes an inline text.
Draft(kind, n) == [kind |-> kind, n |-> n]
generate_scene_text(reply, n) ==
    IF reply = "transport" THEN Draft("Error connecting to Local LLM", n)
    ELSE Draft("prose", n)

EmptyText == Draft("", 0)
FailedToPlanText == Draft("Failed to plan scene", 0)

\* ------------------------------------------------------------------ state
\* Who can be running generate_next_scene: a caller that passes the declared
\* parameters ("direct"), and the POST /generate_scene handler of each client.
Clients == {"c1", "c2"}

\* The connections a request can arrive on: one per client, and a second one
\* of client c1's user ("c1b": the same user signed in twice).
Connections == Clients \cup {"c1b"}
Invokers == {"direct"} \cup Connections

VARIABLES
    timeline,   \* committed rows of timeline_events
    vectors,    \* entries of the Chroma collection scene_summaries
    nextId,     \* source of fresh identifiers (uuid4)
    runs,       \* number of invocations of generate_next_scene so far
    run,        \* run[i]: the activation of generate_next_scene made by invoker i
    projects,   \* rows of projects
    scenes,     \* committed rows of scenes
    req,        \* req[c]: the request of client c being handled
    resp,       \* resp[c]: the last response client c received
    log,        \* the requests answered so far, in order
    fresh,      \* the projects that held no Scene when the service started
    deleted,    \* the projects a DELETE .../scenes/{id} has removed a Scene through
    characters, \* rows of characters, in table order
    world_rules,\* rows of world_rules, in table order
    call        \* the last call made on the ContextBuilder or the StateUpdater
                \* from outside the pipeline: its arguments and its outcome

apiVars == <<projects, scenes, req, resp, log, fresh, deleted>>

\* the tables of the legacy narrative state and the record of the last call
memVars == <<characters, world_rules, call>>

\* a text not built yet
NoText == << >>

\* no call has been made
NoCall ==
    [op |-> "none", done |-> FALSE,
     project_id |-> NoneVal, active_character_ids |-> << >>, location |-> "",
     intent |-> "", characters_freetext |-> NoneVal, results |-> [documents |-> << >>],
     num_scenes |-> 0,
     character_id |-> "", new_state_patch |-> << >>,
     tier_1 |-> << >>, tier_2 |-> << >>, tier_3 |-> << >>, out |-> << >>,
     raised |-> FALSE, before |-> << >>, merged |-> << >>]

\* Locals of one activation, with a record of the calls it has made so far:
\* the *_calls counters, the Planner's reply, and per attempt the draft the
\* Executor returned (drafts), the kind of reply the Critic's backend gave
\* (critic_kinds) and the report the Critic returned (reports); trace lists
\* the calls on the collaborators in the order they were made, exec_outline
\* and exec_context are the arguments of the last Executor call, critic_state
\* the state and judged the drafts the Critic calls were given, tier3_query
\* the text tier 3 was queried with.
\*   pc: "idle" | "plan" | "tier3" | "execute" | "critique" | "commit"
\*       | "returned" | "raised"
IdleRun ==
    [pc |-> "idle", max_retries |-> 0, location |-> "Unspecified",
     active_characters |-> << >>,
     tier_1_state |-> NoText, tier_2_memory |-> NoText, tier_3_episodic |-> NoText,
     outline |-> EmptyDict, intent_summary |-> NoneVal, full_context |-> NoText,
     exec_context |-> NoText,
     attempt |-> 0, draft_scene |-> EmptyText, critic_report |-> EmptyDict,
     scene_id |-> 0,
     success |-> FALSE, text |-> EmptyText, report |-> EmptyDict,
     planner_calls |-> 0, tier3_calls |-> 0, exec_calls |-> 0, critic_calls |-> 0,
     commit_calls |-> 0, commit_outcome |-> NoneVal,
     planner_reply |-> [kind |-> "none", json |-> EmptyDict],
     drafts |-> << >>, critic_kinds |-> << >>, reports |-> << >>,
     trace |-> << >>, exec_outline |-> EmptyDict, critic_state |-> NoText,
     judged |-> << >>, tier3_query |-> NoneVal]

\* the activation is over
Terminal(r) == r.pc \in {"returned", "raised"}

\* `return success, text, report`
Return(r, success, text, report) ==
    [r EXCEPT !.pc = "returned", !.success = success, !.text = text, !.report = report]

\* an exception leaves the frame
Raise(r) == [r EXCEPT !.pc = "raised"]

\* the body starts: the parameters are bound (pipeline.py 21-33)
Enter(max_retries, location) ==
    [IdleRun EXCEPT !.pc = "plan", !.max_retries = max_retries, !.location = location]

\* ------------------------------------------------------- State Committer
MaxOf(S) == IF S = {} THEN 0 ELSE CHOOSE m \in S : \A x \in S : x <= m

\* max_index = db.query(func.max(TimelineEvent.sequence_index)).scalar() or 0
timeline_max_index == MaxOf({e.sequence_index : e \in timeline})

TimelineEvent(scene_id, seq_index, location, summary) ==
    [id |-> scene_id, project_id |-> NoneVal, sequence_index |-> seq_index,
     location |-> location, summary |-> summary]

VectorEntry(scene_id, seq_index, location, summary) ==
    [id |-> scene_id, document |-> summary, sequence_index |-> seq_index,
     location |-> location]

\* commit_scene with the db.rollback() of its except block left out: the
\* staged event stays in the session and reaches the table
commit_scene_NoRollback(scene_id, location, summary, semantic_intent, outcome) ==
    LET seq_index == MaxOf({e.sequence_index : e \in timeline}) + 1
    IN  [raised |-> outcome # "ok",
         timeline |-> timeline \cup {[id |-> scene_id, project_id |-> NoneVal,
                                       sequence_index |-> seq_index,
                                       location |-> location, summary |-> summary]},
         vectors |-> IF outcome = "vector_fail" THEN vectors
                     ELSE vectors \cup {[id |-> scene_id, document |-> semantic_intent,
                                          sequence_index |-> seq_index,
                                          location |-> location]}]

\* commit_scene with db.commit() moved before the semantic write: the event
\* is committed first, so a failing add_scene leaves it in the table
commit_scene_CommitsFirst(scene_id, location, summary, semantic_intent, outcome) ==
    LET seq_index == MaxOf({e.sequence_index : e \in timeline}) + 1
    IN  [raised |-> outcome # "ok",
         timeline |-> IF outcome = "db_fail" THEN timeline
                      ELSE timeline \cup {[id |-> scene_id, project_id |-> NoneVal,
                                            sequence_index |-> seq_index,
                                            location |-> location, summary |-> summary]},
         vectors |-> IF outcome = "ok"
                     THEN vectors \cup {[id |-> scene_id, document |-> semantic_intent,
                                          sequence_index |-> seq_index,
                                          location |-> location]}
                     ELSE vectors]

\* commit_scene with the `raise` of its except block left out
commit_scene_Swallows(scene_id, location, summary, semantic_intent, outcome) ==
    LET seq_index == MaxOf({e.sequence_index : e \in timeline}) + 1
    IN  [raised |-> FALSE,
         timeline |-> IF outcome = "ok"
                      THEN timeline \cup {[id |-> scene_id, project_id |-> NoneVal,
                                            sequence_index |-> seq_index,
                                            location |-> location, summary |-> summary]}
                      ELSE timeline,
         vectors |-> IF outcome = "vector_fail" THEN vectors
                     ELSE vectors \cup {[id |-> scene_id, document |-> semantic_intent,
                                          sequence_index |-> seq_index,
                                          location |-> location]}]

\* StateUpdater.commit_scene: the event is staged, the semantic write is
\* attempted, then the session is committed; on any exception the session is
\* rolled back and the exception re-raised.
\*   outcome "vector_fail": vector_db.add_scene raises
\*   outcome "db_fail":     add_scene succeeded, db.commit() raises
commit_scene(scene_id, location, summary, semantic_intent, outcome) ==
    LET seq_index == timeline_max_index + 1
        new_event == TimelineEvent(scene_id, seq_index, location, summary)
        entry == VectorEntry(scene_id, seq_index, location, semantic_intent)
    IN  [raised |-> outcome # "ok",
         timeline |-> IF outcome = "ok" THEN timeline \cup {new_event} ELSE timeline,
         vectors |-> IF outcome = "vector_fail" THEN vectors ELSE vectors \cup {entry}]

\* ------------------------------------------- StateUpdater: character state
\* A character's current_state column holds either a JSON object, loaded as a
\* dict, or a JSON string that encodes one, loaded as a str:
\*   [type |-> "dict" | "str", items |-> the object, as a function from its
\*    keys to the JSON text of their values]
Dict(items) == [type |-> "dict", items |-> items]
JsonStr(items) == [type |-> "str", items |-> items]

\* current_state.pop(key, None)
Pop(d, key) == [k \in DOMAIN d \ {key} |-> d[k]]

\* current_state[key] = value
Put(d, key, value) == [k \in DOMAIN d \cup {key} |-> IF k = key THEN value ELSE d[k]]

\* the patch loop with `if not value` in place of `if value is None`
RECURSIVE ApplyPatch_FalsyRemoves(_, _, _)
ApplyPatch_FalsyRemoves(current_state, new_state_patch, keys) ==
    IF keys = {} THEN current_state
    ELSE LET key == CHOOSE k \in keys : TRUE
             value == new_state_patch[key]
         IN  ApplyPatch_FalsyRemoves(
                 IF value \in {"null", "0", "false", "\"\""} THEN Pop(current_state, key)
                 ELSE Put(current_state, key, value),
                 new_state_patch, keys \ {key})

\* `for key, value in new_state_patch.items()`: the keys still to visit
RECURSIVE ApplyPatch(_, _, _)
ApplyPatch(current_state, new_state_patch, keys) ==
    IF keys = {} THEN current_state
    ELSE LET key == CHOOSE k \in keys : TRUE
             value == new_state_patch[key]
         IN  ApplyPatch(IF value = "null" THEN Pop(current_state, key)
                        ELSE Put(current_state, key, value),
                        new_state_patch, keys \ {key})

\* StateUpdater.update_character_state.  The result names the dict assigned
\* to character.current_state and the tables db.commit() may leave: the
\* dict loaded from the column is patched in place and assigned back as the
\* same object, so whether the flush sees a change and writes the row is up
\* to the ORM's comparison of old and new value; a state loaded as a str is
\* replaced by a new dict and written.
update_character_state(character_id, new_state_patch) ==
    LET found == SelectSeq(characters, LAMBDA ch : ch.id = character_id)
    IN  IF found = << >>
        THEN [raised |-> TRUE, merged |-> << >>, tables |-> {characters}]
        ELSE LET character == Head(found)
                 merged == ApplyPatch(character.current_state.items, new_state_patch,
                                      DOMAIN new_state_patch)
                 written == [k \in 1..Len(characters) |->
                               IF characters[k] = character
                               THEN [character EXCEPT !.current_state = Dict(merged)]
                               ELSE characters[k]]
             IN  [raised |-> FALSE, merged |-> merged,
                  tables |-> IF character.current_state.type = "dict"
                             THEN {written, characters} ELSE {written}]

\* ------------------------------------------------------------- texts
\* A multi-line text is the sequence of its lines: "\n".join(parts) of
\* one-line parts is the sequence of the parts, and f"{a}\n\n{b}" is the
\* lines of a, an empty line, the lines of b.
RECURSIVE LStrip(_)
LStrip(text) ==
    IF Len(text) > 0 /\ SubSeq(text, 1, 1) = " "
    THEN LStrip(SubSeq(text, 2, Len(text))) ELSE text

RECURSIVE RStrip(_)
RStrip(text) ==
    IF Len(text) > 0 /\ SubSeq(text, Len(text), Len(text)) = " "
    THEN RStrip(SubSeq(text, 1, Len(text) - 1)) ELSE text

\* str.strip()
Strip(text) == RStrip(LStrip(text))

\* bool(text) of an optional str
NonEmptyStr(text) == text # NoneVal /\ text # ""

\* the parts appended to context_parts, joined in order
RECURSIVE Concat(_)
Concat(seqs) ==
    IF seqs = << >> THEN << >> ELSE Head(seqs) \o Concat(Tail(seqs))

\* rows of S by ascending sequence_index
RECURSIVE Ascending(_)
Ascending(S) ==
    IF S = {} THEN << >>
    ELSE LET lo == CHOOSE x \in S : \A y \in S : x.sequence_index <= y.sequence_index
         IN  <<lo>> \o Ascending(S \ {lo})

\* the query ordered by rising sequence_index and not reversed: the n oldest
Recent_Oldest(S, n) ==
    LET all == Ascending(S)
    IN  SubSeq(all, 1, IF Len(all) > n THEN n ELSE Len(all))

\* .order_by(sequence_index.desc()).limit(n).all(), then reversed
Recent(S, n) ==
    LET all == Ascending(S)
    IN  SubSeq(all, IF Len(all) > n THEN Len(all) - n + 1 ELSE 1, Len(all))

\* ------------------------------------------------------ Context Builder
\* Character.id.in_(active_character_ids) ... .all(); not queried at all for
\* an empty id list
MatchingCharacters(active_character_ids) ==
    IF active_character_ids = << >> THEN << >>
    ELSE SelectSeq(characters,
                   LAMBDA ch : \E k \in 1..Len(active_character_ids) :
                                   active_character_ids[k] = ch.id)

\* the four lines tier 1 gives a character; the state is rendered by ToString
\* in place of Python's str(dict)
CharacterLines(ch) ==
    << "Name: " \o ch.name,
       "Core Psychology: " \o ch.core_psychology,
       "Current State: " \o ToString(ch.current_state.items),
       "" >>

\* WorldRule.active_scope == 'global' or == location
MatchingRules(location) ==
    SelectSeq(world_rules, LAMBDA w : w.active_scope = "global" \/ w.active_scope = location)

RuleLine(w) == << "[" \o w.category \o "] " \o w.rule_text >>

NoCharacterData == "(No character data provided. Infer from user prompt.)"
NoWorldRules == "(No world rules defined yet.)"
NoPreviousScenes == "(No previous scenes in this project yet.)"
NoPastEvents == "(No relevant past events found.)"

Tier1Header == "### ACTIVE CHARACTERS ###"
Tier2Header == "### RECENT SCENES (WORKING MEMORY) ###"
Tier3Header == "### RELEVANT PAST EVENTS (SEMANTIC MEMORY) ###"

\* ContextBuilder.build_tier_1_context
build_tier_1_context(active_character_ids, location, characters_freetext) ==
    LET chars == MatchingCharacters(active_character_ids)
        rules == MatchingRules(location)
    IN  << Tier1Header >>
        \o (IF chars # << >> THEN Concat([j \in 1..Len(chars) |-> CharacterLines(chars[j])])
            ELSE IF NonEmptyStr(characters_freetext) THEN << Strip(characters_freetext) >>
            ELSE << NoCharacterData >>)
        \o << "", "### CURRENT LOCATION ###",
              IF NonEmptyStr(location) THEN location ELSE "Unspecified",
              "", "### RELEVANT WORLD RULES ###" >>
        \o (IF rules # << >> THEN Concat([j \in 1..Len(rules) |-> RuleLine(rules[j])]) ELSE << NoWorldRules >>)

\* the entry tier 2 gives a Scene: an empty line (the entry starts with "\n")
\* and three lines; the excerpt is rendered by ToString, the dash and the
\* ellipsis are written in ASCII
SceneLines(s) ==
    << "",
       "[Scene " \o ToString(s.sequence_index) \o " - " \o s.location \o "]",
       "Prompt: " \o s.prompt,
       "Excerpt: " \o ToString(s.scene_text) \o "..." >>

EventLine(e) ==
    << "Scene " \o ToString(e.sequence_index) \o " at " \o e.location \o ": " \o e.summary >>

\* ContextBuilder.build_tier_2_context, for a builder constructed with
\* project_id (None when the builder is not scoped to a project)
build_tier_2_context(project_id, num_scenes) ==
    LET recent_scenes ==
            IF NonEmptyStr(project_id)
            THEN Recent({s \in scenes : s.project_id = project_id}, num_scenes)
            ELSE << >>
        events ==
            Recent(IF NonEmptyStr(project_id)
                   THEN {e \in timeline : e.project_id = project_id}
                   ELSE timeline, num_scenes)
    IN  IF recent_scenes # << >>
        THEN << Tier2Header >> \o Concat([j \in 1..Len(recent_scenes) |-> SceneLines(recent_scenes[j])])
        ELSE << Tier2Header >>
             \o (IF events # << >> THEN Concat([j \in 1..Len(events) |-> EventLine(events[j])])
                 ELSE << NoPreviousScenes >>)

\* the sequences of k distinct elements of S
Arrangements(S, k) ==
    {f \in [1..k -> S] : \A a, b \in 1..k : a # b => f[a] # f[b]}

\* VectorDBClient.query_scenes: Chroma answers one list of documents per query
\* text, holding the n_results nearest entries (all of them when the
\* collection holds fewer; none for an empty collection).  Which entries are
\* nearest, and in which order, is up to the embedding: every arrangement is
\* a possible answer.
query_scenes(intent_text, n_results) ==
    LET k == IF Cardinality(vectors) < n_results THEN Cardinality(vectors) ELSE n_results
    IN  { [documents |-> << [j \in 1..k |-> f[j].document] >>] : f \in Arrangements(vectors, k) }

\* `if doc: context_parts.append(f"- {doc}")`
DocLine(doc) == IF doc # "" THEN << "- " \o doc >> ELSE << >>

\* ContextBuilder.build_tier_3_context, given what query_scenes(intent, 3)
\* answered
build_tier_3_context(intent, results) ==
    << Tier3Header >>
    \o (IF "documents" \in DOMAIN results /\ results.documents # << >>
        THEN Concat([j \in 1..Len(results.documents[1]) |-> DocLine(results.documents[1][j])])
        ELSE << NoPastEvents >>)

\* assemble_full_context with tier 3 placed first
assemble_full_context_Tier3First(project_id, active_character_ids, location, intent, characters_freetext, results) ==
    build_tier_3_context(intent, results)
    \o << "" >> \o build_tier_1_context(active_character_ids, location, characters_freetext)
    \o << "" >> \o build_tier_2_context(project_id, 3)

\* ContextBuilder.assemble_full_context, for a builder constructed with
\* project_id and a store that answers the query with results
assemble_full_context(project_id, active_character_ids, location, intent, characters_freetext, results) ==
    LET tier_1 == build_tier_1_context(active_character_ids, location, characters_freetext)
        tier_2 == build_tier_2_context(project_id, 3)
        tier_3 == build_tier_3_context(intent, results)
    IN  tier_1 \o << "" >> \o tier_2 \o << "" >> \o tier_3

\* ------------------------------------------------- generate_next_scene
\* outline.get("intent_summary", "General conversation and movement.")
IntentOf(outline) ==
    IF Has(outline, "intent_summary") THEN outline.intent
    ELSE "General conversation and movement."

\* AfterPlan with the `if "error" in outline` check left out
AfterPlan_NoErrorCheck(r, reply) ==
    LET res == plan_scene(reply)
        r1 == [r EXCEPT !.planner_calls = @ + 1, !.planner_reply = reply]
    IN  IF res.raised THEN Raise(r1)
        ELSE IF res.value.type # "object" THEN Raise([r1 EXCEPT !.outline = res.value])
        ELSE [r1 EXCEPT !.outline = res.value, !.pc = "tier3",
                        !.intent_summary = IntentOf(res.value)]

\* Phases 1-2: tier 1 and tier 2 are built (reads only), the Planner is called
\* once, and the outline is inspected.
AfterPlan(r, reply) ==
    LET res == plan_scene(reply)
        r1 == [r EXCEPT !.planner_calls = @ + 1, !.planner_reply = reply]
    IN  IF res.raised THEN Raise(r1)
        ELSE LET outline == res.value
                 r2 == [r1 EXCEPT !.outline = outline]
             IN  IF Has(outline, "error")
                 THEN Return(r2, FALSE, FailedToPlanText, outline)
                 ELSE IF outline.type # "object"
                 THEN Raise(r2)        \* a list has no .get: AttributeError
                 ELSE [r2 EXCEPT !.pc = "tier3", !.intent_summary = IntentOf(outline)]

\* the project the invoker's ContextBuilder was constructed with
BuilderProject(i) == IF i \in Connections THEN req[i].project_id ELSE NoneVal

Plan(i) ==
    /\ run[i].pc = "plan"
    /\ \E reply \in PlannerReplies :
           LET r == [run[i] EXCEPT
                       !.tier_1_state = build_tier_1_context(run[i].active_characters,
                                                             run[i].location, NoneVal),
                       !.tier_2_memory = build_tier_2_context(BuilderProject(i), 3),
                       !.trace = @ \o << "build_tier_1_context", "build_tier_2_context",
                                         "plan_scene" >>]
           IN  run' = [run EXCEPT ![i] = AfterPlan(r, reply)]
    /\ UNCHANGED <<timeline, vectors, nextId, runs, apiVars, memVars>>

\* the loop with one iteration too many (range(max_retries + 1))
LoopHead_OneMore(r) ==
    IF r.attempt <= r.max_retries
    THEN [r EXCEPT !.pc = "execute"]
    ELSE Return(r, FALSE, r.draft_scene, r.critic_report)

\* the loop going back to the Critic with the draft it has, the Executor
\* being called for the first attempt only
LoopHead_CritiqueAgain(r) ==
    IF r.attempt < r.max_retries
    THEN [r EXCEPT !.pc = IF r.attempt = 0 THEN "execute" ELSE "critique"]
    ELSE [r EXCEPT !.pc = "returned", !.success = FALSE, !.text = r.draft_scene,
                   !.report = r.critic_report]

\* `for attempt in range(max_retries)`: the next iteration, or the fall-through
\* to the final return.
LoopHead(r) ==
    IF r.attempt < r.max_retries
    THEN [r EXCEPT !.pc = "execute"]
    ELSE Return(r, FALSE, r.draft_scene, r.critic_report)

\* Phase 3: tier 3 is queried with the intent and the full context assembled.
\* f"{tier_1_state}\n\n{tier_2_memory}\n\n{tier_3_episodic}"
full_context(tier_1_state, tier_2_memory, tier_3_episodic) ==
    tier_1_state \o << "" >> \o tier_2_memory \o << "" >> \o tier_3_episodic

Tier3(i) ==
    /\ run[i].pc = "tier3"
    /\ \E results \in query_scenes(run[i].intent_summary, 3) :
           LET tier_3_episodic == build_tier_3_context(run[i].intent_summary, results)
           IN  run' = [run EXCEPT ![i] =
                         LoopHead([run[i] EXCEPT
                                     !.tier3_calls = @ + 1,
                                     !.trace = Append(@, "build_tier_3_context"),
                                     !.tier3_query = run[i].intent_summary,
                                     !.tier_3_episodic = tier_3_episodic,
                                     !.full_context =
                                         full_context(run[i].tier_1_state,
                                                      run[i].tier_2_memory,
                                                      tier_3_episodic)])]
    /\ UNCHANGED <<timeline, vectors, nextId, runs, apiVars, memVars>>

\* the Executor call of a retry given the context with the rejected draft's
\* verdict appended to it
Execute_WithFeedback(i) ==
    /\ run[i].pc = "execute"
    /\ \E reply \in ExecutorReplies :
           LET n == run[i].exec_calls + 1
               draft == generate_scene_text(reply, n)
               context == IF n = 1 THEN run[i].full_context
                          ELSE Append(run[i].full_context, "### CRITIC FEEDBACK ###")
           IN  run' = [run EXCEPT ![i] =
                         [run[i] EXCEPT !.pc = "critique", !.exec_calls = n,
                                        !.full_context = context,
                                        !.exec_context = context,
                                        !.exec_outline = run[i].outline,
                                        !.trace = Append(@, "generate_scene"),
                                        !.draft_scene = draft,
                                        !.drafts = Append(@, draft)]]
    /\ UNCHANGED <<timeline, vectors, nextId, runs, apiVars, memVars>>

\* Phase 4, first half: the Executor drafts the scene.
Execute(i) ==
    /\ run[i].pc = "execute"
    /\ \E reply \in ExecutorReplies :
           LET n == run[i].exec_calls + 1
               draft == generate_scene_text(reply, n)
           IN  run' = [run EXCEPT ![i] =
                         [run[i] EXCEPT !.pc = "critique", !.exec_calls = n,
                                        !.exec_context = run[i].full_context,
                                        !.exec_outline = run[i].outline,
                                        !.trace = Append(@, "generate_scene"),
                                        !.draft_scene = draft,
                                        !.drafts = Append(@, draft)]]
    /\ UNCHANGED <<timeline, vectors, nextId, runs, apiVars, memVars>>

\* critic_report.get("approved")
Approved(report) == IF Has(report, "approved") THEN report.approved ELSE NoneVal

\* `if critic_report.get("approved"):`
Approves(report) == Truthy(Approved(report))

\* Phase 4, second half: the Critic judges the draft.
AfterCritique(r, reply, id) ==
    LET res == evaluate_consistency(reply)
        r1 == [r EXCEPT !.critic_calls = @ + 1, !.critic_kinds = Append(@, reply.kind)]
    IN  IF res.raised THEN Raise(r1)
        ELSE LET report == res.value
                 r2 == [r1 EXCEPT !.critic_report = report, !.reports = Append(@, report)]
             IN  IF report.type # "object"
                 THEN Raise(r2)        \* a list has no .get: AttributeError
                 ELSE IF Approves(report)
                 THEN [r2 EXCEPT !.pc = "commit", !.scene_id = id]
                 ELSE LoopHead([r2 EXCEPT !.attempt = @ + 1])

\* the Critic step keeping the draft of the last attempt although it was
\* rejected: the draft is committed and the failure returned all the same
Critique_CommitsRejected(i) ==
    /\ run[i].pc = "critique"
    /\ \E reply \in CriticReplies :
           /\ run' = [run EXCEPT ![i] =
                         AfterCritique([run[i] EXCEPT
                                          !.critic_state = run[i].tier_1_state,
                                          !.judged = Append(@, run[i].draft_scene),
                                          !.trace = Append(@, "evaluate_consistency")],
                                       reply, nextId)]
           /\ nextId' = IF run'[i].pc = "commit" THEN nextId + 1 ELSE nextId
           /\ LET c == commit_scene(nextId, run[i].location, run[i].intent_summary,
                                    run[i].intent_summary, "ok")
                  kept == run'[i].pc = "returned" /\ ~run'[i].success
              IN  /\ timeline' = IF kept THEN c.timeline ELSE timeline
                  /\ vectors' = IF kept THEN c.vectors ELSE vectors
    /\ UNCHANGED <<runs, apiVars, memVars>>

Critique(i) ==
    /\ run[i].pc = "critique"
    /\ \E reply \in CriticReplies :
           /\ run' = [run EXCEPT ![i] =
                         AfterCritique([run[i] EXCEPT
                                          !.critic_state = run[i].tier_1_state,
                                          !.judged = Append(@, run[i].draft_scene),
                                          !.trace = Append(@, "evaluate_consistency")],
                                       reply, nextId)]
           /\ nextId' = IF run'[i].pc = "commit" THEN nextId + 1 ELSE nextId
    /\ UNCHANGED <<timeline, vectors, runs, apiVars, memVars>>

\* the approved branch without its `return`: the loop goes on after the commit
AfterCommit_NoReturn(r, raised, outcome) ==
    LET r1 == [r EXCEPT !.commit_calls = @ + 1, !.commit_outcome = outcome]
    IN  IF raised THEN Raise(r1)
        ELSE LoopHead([r1 EXCEPT !.attempt = @ + 1])

\* `self.state_updater.commit_scene(...)` followed by `return True, ...`
AfterCommit(r, raised, outcome) ==
    LET r1 == [r EXCEPT !.commit_calls = @ + 1, !.commit_outcome = outcome]
    IN  IF raised THEN Raise(r1)
        ELSE Return(r1, TRUE, r1.draft_scene, r1.critic_report)

\* the commit step also recording the scene in the state of the characters
\* that took part
Commit_PatchesCharacters(i) ==
    /\ run[i].pc = "commit"
    /\ \E outcome \in CommitOutcomes :
           LET c == commit_scene(run[i].scene_id, run[i].location,
                                 run[i].intent_summary, run[i].intent_summary, outcome)
           IN  /\ timeline' = c.timeline
               /\ vectors' = c.vectors
               /\ run' = [run EXCEPT ![i] =
                             AfterCommit([run[i] EXCEPT !.trace = Append(@, "commit_scene")],
                                         c.raised, outcome)]
    /\ characters' = [k \in 1..Len(characters) |->
                         IF \E j \in 1..Len(run[i].active_characters) :
                                run[i].active_characters[j] = characters[k].id
                         THEN [characters[k] EXCEPT
                                 !.current_state = Dict(Put(@.items, "last_scene", "1"))]
                         ELSE characters[k]]
    /\ UNCHANGED <<nextId, runs, apiVars, world_rules, call>>

Commit(i) ==
    /\ run[i].pc = "commit"
    /\ \E outcome \in CommitOutcomes :
           LET c == commit_scene(run[i].scene_id, run[i].location,
                                 run[i].intent_summary, run[i].intent_summary, outcome)
           IN  /\ timeline' = c.timeline
               /\ vectors' = c.vectors
               /\ run' = [run EXCEPT ![i] =
                             AfterCommit([run[i] EXCEPT !.trace = Append(@, "commit_scene")],
                                         c.raised, outcome)]
    /\ UNCHANGED <<nextId, runs, apiVars, memVars>>

\* the active_characters a direct caller passes
DirectCharacterLists == { <<"ana">> }

\* A caller invokes generate_next_scene with the parameters it declares.
DirectCall ==
    /\ run["direct"].pc \in {"idle", "returned", "raised"}
    /\ runs < MaxRuns
    /\ \E m \in 0..MaxRetries, loc \in Locations, ids \in DirectCharacterLists :
           run' = [run EXCEPT !["direct"] = [Enter(m, loc) EXCEPT !.active_characters = ids]]
    /\ runs' = runs + 1
    /\ UNCHANGED <<timeline, vectors, nextId, apiVars, memVars>>

\* ------------------------------------------------------------ HTTP API
\* Each client is an authenticated user (auth/deps.py get_current_user).
UserOf(c) == IF c \in {"c1", "c1b"} THEN "u1" ELSE "u2"

\* project ids a request may name; "p0" is no project
RequestProjects == {"p1", "p2", "p0"}

\* locations a request may carry; the second is whitespace only
RequestLocations == {"Inn", "  "}

\* max_retries when the caller passes none
DefaultMaxRetries == 2

\* the parameters generate_next_scene declares (besides self), those without
\* a default, and the keywords the handler passes
DeclaredParams == {"user_prompt", "active_characters", "location", "seq_index", "max_retries"}
RequiredParams == {"user_prompt", "active_characters", "location", "seq_index"}
PostKeywords == {"user_prompt", "active_characters", "location", "seq_index",
                 "project_id", "characters_freetext"}

\* Python binds a keyword call iff every keyword is a declared parameter and
\* every parameter without default is given; otherwise the call raises
\* TypeError before the body runs.
Binds(keywords) == keywords \subseteq DeclaredParams /\ RequiredParams \subseteq keywords

NoRequest ==
    [pc |-> "idle", project_id |-> "p0", location |-> "Inn",
     effective_location |-> "Inn", seq_index |-> 0, healthy |-> FALSE]

NoResponse ==
    [status |-> 0, detail |-> NoneVal, scene_id |-> 0, sequence_index |-> 0,
     scene_text |-> EmptyText, report |-> EmptyDict]

Response(status, detail) == [NoResponse EXCEPT !.status = status, !.detail = detail]

LogEntry(c, op, project_id, healthy, r) ==
    [client |-> c, op |-> op, project_id |-> project_id, healthy |-> healthy,
     status |-> r.status, sequence_index |-> r.sequence_index]

\* the ownership check with the user filter left out: filter_by(id=project_id)
OwnedProject_AnyUser(project_id, user_id) ==
    \E p \in projects : p.id = project_id

\* db.query(Project).filter_by(id=project_id, user_id=current_user["user_id"]).first()
OwnedProject(project_id, user_id) ==
    \E p \in projects : p.id = project_id /\ p.user_id = user_id

ScenesOf(project_id) == {s \in scenes : s.project_id = project_id}

\* the next index computed under a lock that also counts the indices handed to
\* requests still in flight
max_seq_CountsInFlight(project_id) ==
    MaxOf({s.sequence_index : s \in {t \in scenes : t.project_id = project_id}}
          \cup {req[c].seq_index :
                  c \in {d \in Connections : req[d].pc # "idle" /\ req[d].project_id = project_id}})

\* db.query(func.max(Scene.sequence_index)).filter_by(project_id=...).scalar() or 0
max_seq(project_id) == MaxOf({s.sequence_index : s \in ScenesOf(project_id)})

Scene(id, project_id, seq_index, text, report, location) ==
    [id |-> id, project_id |-> project_id, sequence_index |-> seq_index,
     prompt |-> UserPrompt,
     scene_text |-> text, critic_report |-> report, location |-> location]

\* no request is being handled
Quiescent == \A c \in Clients : req[c].pc = "idle"

\* POST /generate_scene, up to the call of the pipeline: the ownership check,
\* the next sequence index and the effective location.  `healthy` says what
\* the collaborators would do for this request: the Planner would return an
\* outline, the Critic approve the first draft and both stores accept the
\* writes.
PostBegin(c) ==
    /\ req[c].pc = "idle"
    /\ Len(log) < MaxRequests
    /\ \E project_id \in RequestProjects, location \in RequestLocations, healthy \in BOOLEAN :
           IF ~OwnedProject(project_id, UserOf(c))
           THEN LET r == Response(404, "Project not found")
                IN  /\ resp' = [resp EXCEPT ![c] = r]
                    /\ log' = Append(log, LogEntry(c, "generate_scene", project_id, healthy, r))
                    /\ UNCHANGED req
           ELSE /\ req' = [req EXCEPT ![c] =
                             [pc |-> "call", project_id |-> project_id, location |-> location,
                              effective_location |->
                                  IF Strip(location) = "" THEN "Unspecified" ELSE Strip(location),
                              seq_index |-> max_seq(project_id) + 1,
                              healthy |-> healthy]]
                /\ UNCHANGED <<resp, log>>
    /\ UNCHANGED <<timeline, vectors, nextId, runs, run, projects, scenes, fresh, deleted, memVars>>

\* The handler once generate_next_scene is over: a Scene row is inserted for a
\* success (the unique constraint uq_project_seq rejects a duplicate index),
\* HTTP 500 with the report otherwise; an exception becomes HTTP 500.
AfterPipeline(c, r, id) ==
    LET q == req[c]
        row == Scene(id, q.project_id, q.seq_index, r.text, r.report, q.location)
        clash == \E s \in scenes :
                     s.project_id = q.project_id /\ s.sequence_index = q.seq_index
    IN  IF r.pc = "raised" \/ (r.success /\ clash)
        THEN [scenes |-> scenes, resp |-> Response(500, "Internal Server Error")]
        ELSE IF r.success
        THEN [scenes |-> scenes \cup {row},
              resp |-> [status |-> 200, detail |-> "success", scene_id |-> id,
                        sequence_index |-> q.seq_index, scene_text |-> r.text,
                        report |-> r.report]]
        ELSE [scenes |-> scenes,
              resp |-> [Response(500, "Generation failed after max retries")
                            EXCEPT !.report = r.report]]

\* POST /generate_scene from the call of orchestrator.generate_next_scene on:
\* the call is a keyword call with PostKeywords; when it does not bind, the
\* TypeError leaves the handler and the client gets HTTP 500.
PostCall(c) ==
    /\ req[c].pc \in {"call", "await"}
    /\ IF req[c].pc = "call"
       THEN IF Binds(PostKeywords)
            THEN /\ run' = [run EXCEPT ![c] = Enter(DefaultMaxRetries, req[c].effective_location)]
                 /\ req' = [req EXCEPT ![c].pc = "await"]
                 /\ UNCHANGED <<scenes, resp, log, nextId>>
            ELSE LET r == Response(500, "Internal Server Error")
                 IN  /\ resp' = [resp EXCEPT ![c] = r]
                     /\ log' = Append(log, LogEntry(c, "generate_scene", req[c].project_id,
                                                    req[c].healthy, r))
                     /\ req' = [req EXCEPT ![c] = NoRequest]
                     /\ UNCHANGED <<scenes, run, nextId>>
       ELSE /\ Terminal(run[c])
            /\ LET a == AfterPipeline(c, run[c], nextId)
               IN  /\ scenes' = a.scenes
                   /\ resp' = [resp EXCEPT ![c] = a.resp]
                   /\ log' = Append(log, LogEntry(c, "generate_scene", req[c].project_id,
                                                  req[c].healthy, a.resp))
            /\ nextId' = nextId + 1
            /\ req' = [req EXCEPT ![c] = NoRequest]
            /\ run' = [run EXCEPT ![c] = IdleRun]
    /\ UNCHANGED <<timeline, vectors, runs, projects, fresh, deleted, memVars>>

\* the lookup of delete_scene as written with the project filter left out
FindScene_AnyProject(scene_id, project_id) == {s \in scenes : s.id = scene_id}

\* db.query(Scene).filter_by(id=scene_id, project_id=project_id).first()
FindScene(scene_id, project_id) ==
    {s \in scenes : s.id = scene_id /\ s.project_id = project_id}

\* delete_scene closing the gap it leaves: the Scenes above the deleted one
\* move down by one
DeleteScene_Renumbers(c) ==
    /\ req[c].pc = "idle"
    /\ Len(log) < MaxRequests
    /\ \E project_id \in RequestProjects, scene_id \in {s.id : s \in scenes} \cup {0} :
           LET found == FindScene(scene_id, project_id)
               r == IF ~OwnedProject(project_id, UserOf(c))
                    THEN Response(404, "Project not found")
                    ELSE IF found = {} THEN Response(404, "Scene not found")
                    ELSE Response(204, NoneVal)
           IN  /\ resp' = [resp EXCEPT ![c] = r]
               /\ log' = Append(log, LogEntry(c, "delete_scene", project_id, FALSE, r))
               /\ scenes' = IF r.status = 204
                            THEN {IF s.project_id = project_id
                                     /\ \E d \in found : s.sequence_index > d.sequence_index
                                  THEN [s EXCEPT !.sequence_index = @ - 1] ELSE s
                                    : s \in scenes \ found}
                            ELSE scenes
               /\ deleted' = IF r.status = 204 THEN deleted \cup {project_id} ELSE deleted
    /\ UNCHANGED <<timeline, vectors, nextId, runs, run, projects, req, fresh, memVars>>

\* DELETE /projects/{project_id}/scenes/{scene_id}
DeleteScene(c) ==
    /\ req[c].pc = "idle"
    /\ Len(log) < MaxRequests
    /\ \E project_id \in RequestProjects, scene_id \in {s.id : s \in scenes} \cup {0} :
           LET found == FindScene(scene_id, project_id)
               r == IF ~OwnedProject(project_id, UserOf(c))
                    THEN Response(404, "Project not found")
                    ELSE IF found = {} THEN Response(404, "Scene not found")
                    ELSE Response(204, NoneVal)
           IN  /\ resp' = [resp EXCEPT ![c] = r]
               /\ log' = Append(log, LogEntry(c, "delete_scene", project_id, FALSE, r))
               /\ scenes' = IF r.status = 204 THEN scenes \ found ELSE scenes
               /\ deleted' = IF r.status = 204 THEN deleted \cup {project_id} ELSE deleted
    /\ UNCHANGED <<timeline, vectors, nextId, runs, run, projects, req, fresh, memVars>>

\* GET /projects/{project_id}/scenes: the project's rows are read, ordered
\* and returned; what is returned is not recorded
ListScenes(c) ==
    /\ req[c].pc = "idle"
    /\ Len(log) < MaxRequests
    /\ \E project_id \in RequestProjects :
           LET r == IF ~OwnedProject(project_id, UserOf(c))
                    THEN Response(404, "Project not found")
                    ELSE Response(200, NoneVal)
           IN  /\ resp' = [resp EXCEPT ![c] = r]
               /\ log' = Append(log, LogEntry(c, "list_scenes", project_id, FALSE, r))
    /\ UNCHANGED <<timeline, vectors, nextId, runs, run, projects, scenes, req, fresh,
                   deleted, memVars>>

\* the identifiers uuid4 gives the projects created while the service runs
NewProjects == {"p3"}

\* POST /projects
CreateProject(c) ==
    /\ req[c].pc = "idle"
    /\ Len(log) < MaxRequests
    /\ \E id \in NewProjects \ {p.id : p \in projects} :
           LET r == Response(201, NoneVal)
           IN  /\ projects' = projects \cup {[id |-> id, user_id |-> UserOf(c)]}
               /\ resp' = [resp EXCEPT ![c] = r]
               /\ log' = Append(log, LogEntry(c, "create_project", id, FALSE, r))
    /\ UNCHANGED <<timeline, vectors, nextId, runs, run, scenes, req, fresh, deleted, memVars>>

\* delete_project for a relationship without cascade: the project's row goes,
\* its Scenes stay
DeleteProject_NoCascade(c) ==
    /\ req[c].pc = "idle"
    /\ Len(log) < MaxRequests
    /\ \E project_id \in RequestProjects :
           LET owned == OwnedProject(project_id, UserOf(c))
               r == IF ~owned THEN Response(404, "Project not found")
                    ELSE Response(204, NoneVal)
           IN  /\ resp' = [resp EXCEPT ![c] = r]
               /\ log' = Append(log, LogEntry(c, "delete_project", project_id, FALSE, r))
               /\ projects' = IF owned THEN {p \in projects : p.id # project_id} ELSE projects
    /\ UNCHANGED <<timeline, vectors, nextId, runs, run, scenes, req, fresh, deleted, memVars>>

\* DELETE /projects/{project_id}: the relationship's cascade deletes the
\* project's Scenes with it
DeleteProject(c) ==
    /\ req[c].pc = "idle"
    /\ Len(log) < MaxRequests
    /\ \E project_id \in RequestProjects :
           LET owned == OwnedProject(project_id, UserOf(c))
               r == IF ~owned THEN Response(404, "Project not found")
                    ELSE Response(204, NoneVal)
           IN  /\ resp' = [resp EXCEPT ![c] = r]
               /\ log' = Append(log, LogEntry(c, "delete_project", project_id, FALSE, r))
               /\ projects' = IF owned THEN {p \in projects : p.id # project_id} ELSE projects
               /\ scenes' = IF owned THEN scenes \ ScenesOf(project_id) ELSE scenes
               /\ deleted' = IF owned /\ ScenesOf(project_id) # {}
                             THEN deleted \cup {project_id} ELSE deleted
    /\ UNCHANGED <<timeline, vectors, nextId, runs, run, req, fresh, memVars>>

\* ------------------------------------ calls of the memory operations
\* The inputs the ContextBuilder and the StateUpdater are called with.
ActiveCharacterLists == { << >>, <<"ana">>, <<"zed">>, <<"ana", "bo">> }
TierLocations == {"Inn", ""}
Freetexts == {NoneVal, "", "  ", "Ana is bold.", " Ana is bold. "}
Intents == {"intent"}
BuilderProjects == {NoneVal, "p1", "p2"}
PatchTargets == {"ana", "zed"}
WindowSizes == {0, 1, 2, 3}

\* the state of the example and two smaller ones
ItemSets ==
    { [trust |-> "1", fear |-> "3", name |-> "\"Ana\""], [trust |-> "1"], << >> }

Patches ==
    { [trust |-> "5", fear |-> "null"], [fear |-> "null"], [mood |-> "\"calm\""],
      [trust |-> "0"], [trust |-> "null", fear |-> "null", name |-> "null"], << >> }

CharacterRow(id, name, current_state) ==
    [id |-> id, name |-> name, core_psychology |-> "bold", current_state |-> current_state]

\* the characters table: empty, Ana alone, or Ana and Bo
CharacterTables ==
    { << >> }
    \cup { << CharacterRow("ana", "Ana", st) >> : st \in {Dict(i) : i \in ItemSets} \cup {JsonStr(i) : i \in ItemSets} }
    \cup { << CharacterRow("ana", "Ana", Dict(i)), CharacterRow("bo", "Bo", Dict([trust |-> "3"])) >>
             : i \in ItemSets }

WorldRule(category, rule_text, active_scope) ==
    [category |-> category, rule_text |-> rule_text, active_scope |-> active_scope]

WorldRuleTables ==
    { << >>,
      << WorldRule("law", "No blades indoors.", "Inn") >>,
      << WorldRule("magic", "Magic costs blood.", "global"),
         WorldRule("law", "No blades indoors.", "Inn") >> }

\* the calls a behaviour may start with, before they are made
PendingCalls ==
    { [NoCall EXCEPT !.op = "build_tier_1_context", !.active_character_ids = ids,
                     !.location = loc, !.characters_freetext = ft]
        : ids \in ActiveCharacterLists, loc \in TierLocations, ft \in Freetexts }
    \cup { [NoCall EXCEPT !.op = "build_tier_3_context", !.project_id = pr,
                          !.intent = intent, !.results = res]
             : pr \in BuilderProjects, intent \in Intents, res \in query_scenes("intent", 3) }
    \cup { [NoCall EXCEPT !.op = "assemble_full_context", !.project_id = pr,
                          !.active_character_ids = ids, !.location = "Inn",
                          !.intent = "intent", !.characters_freetext = ft, !.results = res]
             : pr \in BuilderProjects, ids \in {<< >>, <<"ana">>},
               ft \in {NoneVal, "Ana is bold."}, res \in query_scenes("intent", 3) }
    \cup { [NoCall EXCEPT !.op = "build_tier_2_context", !.project_id = pr,
                          !.num_scenes = n]
             : pr \in BuilderProjects, n \in WindowSizes }
    \cup { [NoCall EXCEPT !.op = "update_character_state", !.character_id = id,
                          !.new_state_patch = patch]
             : id \in PatchTargets, patch \in Patches }

BuildTier1Call ==
    /\ call.op = "build_tier_1_context" /\ ~call.done
    /\ call' = [call EXCEPT !.done = TRUE,
                            !.out = build_tier_1_context(call.active_character_ids,
                                                         call.location,
                                                         call.characters_freetext)]
    /\ UNCHANGED <<timeline, vectors, nextId, runs, run, apiVars, characters, world_rules>>

BuildTier2Call ==
    /\ call.op = "build_tier_2_context" /\ ~call.done
    /\ call' = [call EXCEPT !.done = TRUE,
                            !.out = build_tier_2_context(call.project_id, call.num_scenes)]
    /\ UNCHANGED <<timeline, vectors, nextId, runs, run, apiVars, characters, world_rules>>

BuildTier3Call ==
    /\ call.op = "build_tier_3_context" /\ ~call.done
    /\ call' = [call EXCEPT !.done = TRUE,
                            !.out = build_tier_3_context(call.intent, call.results)]
    /\ UNCHANGED <<timeline, vectors, nextId, runs, run, apiVars, characters, world_rules>>

AssembleCall ==
    /\ call.op = "assemble_full_context" /\ ~call.done
    /\ call' = [call EXCEPT
                  !.done = TRUE,
                  !.tier_1 = build_tier_1_context(call.active_character_ids, call.location,
                                                  call.characters_freetext),
                  !.tier_2 = build_tier_2_context(call.project_id, 3),
                  !.tier_3 = build_tier_3_context(call.intent, call.results),
                  !.out = assemble_full_context(call.project_id, call.active_character_ids,
                                                call.location, call.intent,
                                                call.characters_freetext, call.results)]
    /\ UNCHANGED <<timeline, vectors, nextId, runs, run, apiVars, characters, world_rules>>

UpdateCharacterStateCall ==
    /\ call.op = "update_character_state" /\ ~call.done
    /\ LET u == update_character_state(call.character_id, call.new_state_patch)
           found == SelectSeq(characters, LAMBDA ch : ch.id = call.character_id)
       IN  /\ characters' \in u.tables
           /\ call' = [call EXCEPT
                         !.done = TRUE, !.raised = u.raised, !.merged = u.merged,
                         !.before = IF found = << >> THEN << >>
                                    ELSE Head(found).current_state.items]
    /\ UNCHANGED <<timeline, vectors, nextId, runs, run, apiVars, world_rules>>

vars == <<timeline, vectors, nextId, runs, run, projects, scenes, req, resp, log, fresh, deleted,
         characters, world_rules, call>>

\* What the stores hold after n generations for project p1 were persisted:
\* per generation a timeline event and a semantic entry (commit_scene), then a
\* Scene row (the handler), each with its own fresh identifier.
StoredScenes(n) ==
    {Scene(2 * k, "p1", k, Draft("prose", 1),
           Json("object", {"approved", "metrics", "justification"}, "true",
                "tas=1.0,flags=0,drift=[]", NoneVal, NoneVal),
           "Inn") : k \in 1..n}
StoredTimeline(n) == {TimelineEvent(2 * k - 1, k, "Inn", "intent") : k \in 1..n}
StoredVectors(n) == {VectorEntry(2 * k - 1, k, "Inn", "intent") : k \in 1..n}

\* Earlier generations made for more than one project: h[k] is the project of
\* the k-th one.  Its Scene carries the project's next index and the location
\* of the request, its timeline event and semantic entry the next index over
\* all events and no project.
GenerationProjects == {"p1", "p2"}
Histories(n) == [1..n -> GenerationProjects]
LocationIn(project_id) == IF project_id = "p1" THEN "Inn" ELSE "Dock"
IndexIn(h, k) == Cardinality({j \in 1..k : h[j] = h[k]})
SummaryIn(project_id) == IF project_id = "p1" THEN "intent" ELSE "intent at the dock"
HistoryScenes(h) ==
    {Scene(2 * k, h[k], IndexIn(h, k), Draft("prose", 1),
           Json("object", {"approved", "metrics", "justification"}, "true",
                "tas=1.0,flags=0,drift=[]", NoneVal, NoneVal),
           LocationIn(h[k])) : k \in DOMAIN h}
HistoryTimeline(h) ==
    {TimelineEvent(2 * k - 1, k, LocationIn(h[k]), SummaryIn(h[k])) : k \in DOMAIN h}
HistoryVectors(h) ==
    {VectorEntry(2 * k - 1, k, LocationIn(h[k]), SummaryIn(h[k])) : k \in DOMAIN h}

\* The service has been started (main.py: engine, init_db, vector store,
\* clients) on stores that hold n earlier generations for project p1.
Started(n) ==
    /\ timeline = StoredTimeline(n)
    /\ vectors = StoredVectors(n)
    /\ scenes = StoredScenes(n)
    /\ nextId = 2 * n + 1
    /\ runs = 0
    /\ run = [i \in Invokers |-> IdleRun]
    /\ projects = {[id |-> "p1", user_id |-> "u1"], [id |-> "p2", user_id |-> "u2"]}
    /\ req = [c \in Connections |-> NoRequest]
    /\ resp = [c \in Connections |-> NoResponse]
    /\ log = << >>
    /\ fresh = {p.id : p \in {q \in projects : ScenesOf(q.id) = {}}}
    /\ deleted = {}
    /\ characters = << >>
    /\ world_rules = << >>
    /\ call = NoCall

\* first start: empty stores
Init == Started(0)

Pipeline ==
    \E i \in Invokers : Plan(i) \/ Tier3(i) \/ Execute(i) \/ Critique(i) \/ Commit(i)

\* generate_next_scene under a caller that passes its declared parameters
Next == DirectCall \/ Pipeline

Spec == Init /\ [][Next]_vars

\* a start on stores written by earlier runs of the service
InitApi == \E n \in 0..InitScenes : Started(n)

\* the HTTP operations on a project's scenes, one request at a time
NextApi ==
    \E c \in Clients :
        \/ Quiescent /\ PostBegin(c)
        \/ PostCall(c)
        \/ Quiescent /\ DeleteScene(c)

SpecApi == InitApi /\ [][NextApi]_vars

\* all the HTTP operations on projects and scenes, one request at a time
NextScenes ==
    \E c \in Clients :
        \/ PostCall(c)
        \/ Quiescent /\ Len(log) < MaxSceneRequests /\ PostBegin(c)
        \/ Quiescent /\ Len(log) < MaxSceneRequests /\ DeleteScene(c)
        \/ Quiescent /\ Len(log) < MaxSceneRequests /\ ListScenes(c)
        \/ Quiescent /\ Len(log) < MaxSceneRequests /\ CreateProject(c)
        \/ Quiescent /\ Len(log) < MaxSceneRequests /\ DeleteProject(c)

SpecScenes == InitApi /\ [][NextScenes]_vars

\* generate_next_scene on a story world that holds characters and rules
WorldCharacterTables ==
    { << CharacterRow("ana", "Ana", Dict([trust |-> "1", fear |-> "3"])),
         CharacterRow("bo", "Bo", Dict([trust |-> "3"])) >> }

InitWorld ==
    /\ timeline = {} /\ vectors = {} /\ scenes = {}
    /\ nextId = 1
    /\ runs = 0
    /\ run = [i \in Invokers |-> IdleRun]
    /\ projects = {[id |-> "p1", user_id |-> "u1"], [id |-> "p2", user_id |-> "u2"]}
    /\ req = [c \in Connections |-> NoRequest]
    /\ resp = [c \in Connections |-> NoResponse]
    /\ log = << >>
    /\ fresh = {"p1", "p2"}
    /\ deleted = {}
    /\ characters \in WorldCharacterTables
    /\ world_rules = << WorldRule("magic", "Magic costs blood.", "global"),
                        WorldRule("law", "No blades indoors.", "Inn") >>
    /\ call = NoCall

SpecWorld == InitWorld /\ [][Next]_vars

\* the same operations with requests handled concurrently: a handler's steps
\* (the reads up to the pipeline call, then the call and what follows it)
\* interleave with the steps of the handlers of other connections
InFlight == {c \in Connections : req[c].pc # "idle"}

NextRace ==
    \E c \in Connections :
        \/ Len(log) + Cardinality(InFlight) < MaxRaceRequests /\ PostBegin(c)
        \/ PostCall(c)

SpecRace == InitApi /\ [][NextRace]_vars

\* The memory operations on their own: the stores hold n earlier generations,
\* (for a call of tier 2 or tier 3: made for either project, some of the Scenes
\* deleted since), the legacy tables hold some characters and world rules, and the behaviour
\* makes one call of a ContextBuilder or StateUpdater operation, or runs
\* generate_next_scene up to the Executor's call.
InitFn ==
    /\ \E n \in 0..InitScenes : \E h \in Histories(n) : \E kept \in SUBSET HistoryScenes(h) :
           /\ timeline = HistoryTimeline(h)
           /\ vectors = HistoryVectors(h)
           /\ scenes = kept
           /\ nextId = 2 * n + 1
           /\ call \in PendingCalls \cup {NoCall}
           /\ call.op \notin {"build_tier_2_context", "build_tier_3_context"}
                 => (h = [k \in 1..n |-> "p1"] /\ kept = HistoryScenes(h))
    /\ runs = 0
    /\ run = [i \in Invokers |-> IdleRun]
    /\ projects = {[id |-> "p1", user_id |-> "u1"], [id |-> "p2", user_id |-> "u2"]}
    /\ req = [c \in Connections |-> NoRequest]
    /\ resp = [c \in Connections |-> NoResponse]
    /\ log = << >>
    /\ fresh = {p.id : p \in {q \in projects : ScenesOf(q.id) = {}}}
    /\ deleted = {}
    /\ characters \in CharacterTables
    /\ world_rules \in WorldRuleTables

NextFn ==
    \/ BuildTier1Call
    \/ BuildTier2Call
    \/ BuildTier3Call
    \/ AssembleCall
    \/ UpdateCharacterStateCall
    \/ call.op = "none" /\ DirectCall
    \/ Plan("direct") \/ Tier3("direct") \/ Execute("direct")

SpecFn == InitFn /\ [][NextFn]_vars

\* ------------------------------------------------------------- properties
\* the Planner returned an outline: a JSON object without an "error" key
PlannerSucceeded(r) ==
    /\ r.planner_calls = 1
    /\ r.planner_reply.kind = "json"
    /\ r.planner_reply.json.type = "object"
    /\ "error" \notin r.planner_reply.json.keys

\* every call of the Critic so far returned a report
CriticAlwaysReturned(r) == Len(r.reports) = r.critic_calls

\* the report's approved field is the boolean b ("true" / "false")
ApprovedIs(report, b) ==
    report.type = "object" /\ "approved" \in report.keys /\ report.approved = b

LastOr(seq, default) == IF Len(seq) = 0 THEN default ELSE seq[Len(seq)]

\* C1: when the Planner succeeded and every Critic call returned
\* approved=false, the finished run has called the Executor and the Critic
\* exactly max_retries times each, never commit_scene, and has returned
\* (False, draft of the last attempt, report of the last attempt).
C1_RetryTermination ==
    \A i \in Invokers :
        LET r == run[i] IN
        ( /\ Terminal(r)
          /\ PlannerSucceeded(r)
          /\ CriticAlwaysReturned(r)
          /\ \A k \in 1..Len(r.reports) : ApprovedIs(r.reports[k], "false") )
        => /\ r.pc = "returned"
           /\ r.exec_calls = r.max_retries
           /\ r.critic_calls = r.max_retries
           /\ r.commit_calls = 0
           /\ r.success = FALSE
           /\ r.text = LastOr(r.drafts, EmptyText)
           /\ r.report = LastOr(r.reports, EmptyDict)
           /\ Len(r.drafts) = r.max_retries

C1_Witness ==
    \E i \in Invokers :
        LET r == run[i] IN
        /\ r.pc = "returned" /\ PlannerSucceeded(r)
        /\ r.max_retries = 2 /\ Len(r.reports) = 2
        /\ \A k \in 1..2 : ApprovedIs(r.reports[k], "false")
        /\ r.drafts[1] # r.drafts[2]
        /\ r.reports[1] # r.reports[2]

\* the Critic's report of attempt k is the first one with approved = true
FirstApprovalAt(r, k) ==
    /\ k \in 1..Len(r.reports)
    /\ ApprovedIs(r.reports[k], "true")
    /\ \A j \in 1..(k - 1) : ~ApprovedIs(r.reports[j], "true")

\* C2 as stated: when the first approval comes on attempt k, the finished run
\* has called Executor and Critic k times each, commit_scene once, and returned
\* (True, draft of attempt k, report of attempt k).
C2_EarlyExit_Original ==
    \A i \in Invokers : \A k \in 1..MaxRetries :
        LET r == run[i] IN
        (Terminal(r) /\ PlannerSucceeded(r) /\ FirstApprovalAt(r, k))
        => /\ r.exec_calls = k /\ r.critic_calls = k /\ r.commit_calls = 1
           /\ r.pc = "returned" /\ r.success = TRUE
           /\ r.text = r.drafts[k] /\ r.report = r.reports[k]

\* C2 amended: ... commit_scene is called once, no further attempt is made,
\* and the run returns (True, draft k, report k) if commit_scene returned;
\* if commit_scene raised, the run ends with that exception and no result.
C2_EarlyExit ==
    \A i \in Invokers : \A k \in 1..MaxRetries :
        LET r == run[i] IN
        (Terminal(r) /\ PlannerSucceeded(r) /\ FirstApprovalAt(r, k))
        => /\ r.exec_calls = k /\ r.critic_calls = k /\ r.commit_calls = 1
           /\ k <= r.max_retries
           /\ Len(r.drafts) = k /\ Len(r.reports) = k
           /\ IF r.commit_outcome = "ok"
              THEN /\ r.pc = "returned" /\ r.success = TRUE
                   /\ r.text = r.drafts[k] /\ r.report = r.reports[k]
              ELSE r.pc = "raised"

C2_Witness ==
    \E i \in Invokers :
        LET r == run[i] IN
        /\ r.pc = "returned" /\ r.success = TRUE
        /\ r.max_retries = 2 /\ FirstApprovalAt(r, 1)
        /\ r.exec_calls = 1 /\ r.commit_calls = 1

\* C3: a run returns success=True only after commit_scene was called and
\* returned without raising; when commit_scene raises, the run ends with the
\* exception (no result is returned), and the handler of POST /generate_scene,
\* given that outcome, answers HTTP 500 and inserts no Scene row.
C3_NoSuccessWithoutCommit ==
    \A i \in Invokers :
        LET r == run[i] IN
        /\ (r.pc = "returned" /\ r.success = TRUE)
              => (r.commit_calls = 1 /\ r.commit_outcome = "ok"
                  /\ \E e \in timeline : e.id = r.scene_id)
        /\ (r.commit_calls > 0 /\ r.commit_outcome # "ok")
              => /\ r.pc = "raised" /\ r.success = FALSE
                 /\ \A c \in Clients :
                        LET a == AfterPipeline(c, r, nextId)
                        IN  a.resp.status = 500 /\ a.scenes = scenes

C3_Witness ==
    \E i \in Invokers :
        LET r == run[i] IN
        /\ r.pc = "raised" /\ r.commit_calls = 1
        /\ r.commit_outcome \in {"vector_fail", "db_fail"}
        /\ ApprovedIs(LastOr(r.reports, EmptyDict), "true")

\* the Planner returned a payload with an "error" key
PlannerReturnedError(r) ==
    /\ r.planner_calls >= 1
    /\ ~plan_scene(r.planner_reply).raised
    /\ Has(plan_scene(r.planner_reply).value, "error")

\* C4: when the Planner returns a payload carrying "error", the run is over
\* at once: one Planner call, no tier-3 retrieval, no Executor, Critic or
\* commit call, and the result (False, "Failed to plan scene", that payload).
C4_PlanningErrorIsFatal ==
    \A i \in Invokers :
        LET r == run[i] IN
        PlannerReturnedError(r)
        => /\ r.pc = "returned"
           /\ r.planner_calls = 1
           /\ r.tier3_calls = 0 /\ r.exec_calls = 0
           /\ r.critic_calls = 0 /\ r.commit_calls = 0
           /\ r.success = FALSE
           /\ r.text = FailedToPlanText
           /\ r.report = plan_scene(r.planner_reply).value

C4_Witness ==
    \E i \in Invokers :
        LET r == run[i] IN
        /\ PlannerReturnedError(r) /\ r.pc = "returned"
        /\ r.planner_reply.kind = "not_json" /\ r.max_retries = 2

\* C5: commit_scene is called only when the Critic report's approved field is
\* the boolean true; a missing, false or non-boolean approved never leads to a
\* commit.
C5_OnlyBooleanTrueCommits ==
    \A i \in Invokers :
        LET r == run[i] IN
        r.commit_calls > 0 => ApprovedIs(LastOr(r.reports, EmptyDict), "true")

\* C6: the Critic fails closed: whenever its backend call fails in transport
\* or answers text that does not parse, the Critic returns a report with
\* approved=false and the attempt counts as a rejection.
C6_CriticFailsClosed ==
    \A i \in Invokers :
        LET r == run[i] IN
        \A k \in 1..Len(r.critic_kinds) :
            r.critic_kinds[k] \in {"transport", "not_json"}
            => /\ k <= Len(r.reports)
               /\ ApprovedIs(r.reports[k], "false")
               /\ r.attempt >= k
               /\ r.pc # "raised"

\* C7: a transport failure of the Planner's backend call yields a PlanningError
\* value, and the run returns (False, _, that payload).
C7_PlannerTransportIsPlanningError ==
    \A i \in Invokers :
        LET r == run[i] IN
        r.planner_reply.kind = "transport"
        => /\ r.pc = "returned" /\ r.success = FALSE
           /\ Has(r.report, "error")
           /\ r.exec_calls = 0

\* the reply parses to an object holding exactly the three outline fields
MatchesOutlineSchema(reply) ==
    reply.kind = "json" /\ reply.json.type = "object" /\ reply.json.keys = OutlineFields

\* C8: a Planner response that does not match the three-field outline schema
\* surfaces as a PlanningError: the run returns failure with an "error"
\* payload and the Executor is never called.
C8_SchemaMismatchIsPlanningError ==
    \A i \in Invokers :
        LET r == run[i] IN
        (r.planner_calls = 1 /\ r.planner_reply.kind \in {"json", "not_json"}
           /\ ~MatchesOutlineSchema(r.planner_reply))
        => /\ r.exec_calls = 0
           /\ r.pc \notin {"tier3", "execute", "critique", "commit"}
           /\ Terminal(r) => (r.pc = "returned" /\ r.success = FALSE /\ Has(r.report, "error"))

\* the generate_scene requests among the first n log entries that the owner
\* made for project p
GeneratesFor(p) ==
    SelectSeq(log, LAMBDA e : e.op = "generate_scene" /\ e.project_id = p /\ e.status # 404)

SeqIndicesOf(p) == {s.sequence_index : s \in ScenesOf(p)}

\* C9: after N sequential POST /generate_scene requests for a fresh project,
\* each with collaborators that let the generation through (and no deletion),
\* the project's Scenes have sequence_index exactly 1..N and the k-th response
\* is a success carrying sequence_index k.
C9_SequencingOnFreshProject ==
    \A p \in fresh \ deleted :
        LET H == GeneratesFor(p) IN
        (Quiescent /\ \A k \in 1..Len(H) : H[k].healthy)
        => /\ SeqIndicesOf(p) = 1..Len(H)
           /\ Cardinality(ScenesOf(p)) = Len(H)
           /\ \A k \in 1..Len(H) : H[k].status = 200 /\ H[k].sequence_index = k

\* sequence_index values of p's Scenes are pairwise distinct
DistinctIndices(p) == Cardinality(SeqIndicesOf(p)) = Cardinality(ScenesOf(p))

\* ... and form the range 1..n
ContiguousIndices(p) == SeqIndicesOf(p) = 1..Cardinality(ScenesOf(p))

C11_VectorFailureRollsBack ==
    [][\A i \in Invokers :
          (run[i].pc = "commit" /\ run'[i].commit_outcome = "vector_fail")
          => /\ timeline' = timeline
             /\ vectors' = vectors
             /\ run'[i].pc = "raised"
             /\ ~\E e \in timeline' : e.id = run'[i].scene_id
             /\ ~\E v \in vectors' : v.id = run'[i].scene_id
             /\ \A c \in Clients :
                    LET a == AfterPipeline(c, run'[i], nextId')
                    IN  a.scenes = scenes' /\ a.resp.status = 500]_vars

C11_Witness ==
    \E i \in Invokers :
        LET r == run[i] IN
        /\ r.pc = "raised" /\ r.commit_calls = 1 /\ r.commit_outcome = "vector_fail"
        /\ r.scene_id # 0
        /\ ~\E e \in timeline : e.id = r.scene_id

\* the last log entry of client c
LastEntryOf(c, k) ==
    log[k].client = c /\ \A j \in (k + 1)..Len(log) : log[j].client # c

\* C12: every answered POST /generate_scene of the owner of a project, made
\* with a Planner that returns an outline, a Critic that approves and stores
\* that accept the writes, is answered "success" (HTTP 200); the project then
\* holds exactly one Scene with the returned sequence_index, and that row's
\* id, scene_text and critic_report are the ones in the response.
C12_SuccessResponseAndOneRow ==
    \A k \in 1..Len(log) :
        LET e == log[k] IN
        ( /\ e.op = "generate_scene" /\ e.healthy
          /\ OwnedProject(e.project_id, UserOf(e.client))
          /\ e.project_id \notin deleted )
        => /\ e.status = 200
           /\ Cardinality({s \in ScenesOf(e.project_id) :
                              s.sequence_index = e.sequence_index}) = 1
           /\ LastEntryOf(e.client, k)
                 => \E s \in ScenesOf(e.project_id) :
                        /\ s.id = resp[e.client].scene_id
                        /\ s.sequence_index = resp[e.client].sequence_index
                        /\ s.scene_text = resp[e.client].scene_text
                        /\ s.critic_report = resp[e.client].report

\* the step answers a POST /generate_scene of client c with log entry e
AnswersGenerate(c, e) ==
    /\ Len(log') = Len(log) + 1
    /\ e = log'[Len(log')]
    /\ e.op = "generate_scene" /\ e.client = c

\* C13: a POST /generate_scene naming a project that does not exist or belongs
\* to another user is answered 404 "Project not found" in the handler's first
\* step: generate_next_scene is not entered (no context built, no Planner,
\* Executor or Critic call), and the timeline, the semantic store and the
\* Scene table are left as they were.
C13_NotFoundBeforeAnyWork ==
    [][\A c \in Clients : \A e \in {log'[k] : k \in (Len(log) + 1)..Len(log')} :
          (AnswersGenerate(c, e) /\ ~\E p \in projects :
                                        p.id = e.project_id /\ p.user_id = UserOf(c))
          => /\ e.status = 404
             /\ resp'[c].detail = "Project not found"
             /\ req[c].pc = "idle" /\ req'[c].pc = "idle"
             /\ run' = run
             /\ run[c].pc = "idle" /\ run[c].planner_calls = 0
             /\ run[c].exec_calls = 0 /\ run[c].critic_calls = 0
             /\ run[c].full_context = NoText
             /\ timeline' = timeline /\ vectors' = vectors
             /\ scenes' = scenes /\ nextId' = nextId]_vars

C13_Witness ==
    \E j, k \in 1..Len(log) :
        /\ log[j].op = "generate_scene" /\ log[j].client = "c1"
        /\ log[j].project_id = "p2" /\ log[j].status = 404
        /\ log[k].op = "generate_scene" /\ log[k].client = "c1"
        /\ log[k].project_id = "p0" /\ log[k].status = 404
        /\ scenes # {}

\* the run ended in one of the three failures C14 names: the Planner returned
\* an "error" payload, every attempt was used up, or commit_scene failed
FailedRun(r) ==
    /\ Terminal(r)
    /\ \/ PlannerReturnedError(r)
       \/ r.pc = "returned" /\ ~r.success /\ PlannerSucceeded(r)
       \/ r.commit_calls > 0 /\ r.commit_outcome # "ok"

\* C14: for every failed run (planning failure, exhaustion for any
\* max_retries >= 0, persistence failure during commit) the handler answers a
\* failure whose report field is a non-empty object, the last Critic report
\* where a Critic ran.
C14_EveryFailureCarriesReport ==
    \A i \in Invokers :
        LET r == run[i] IN
        FailedRun(r)
        => \A c \in Clients :
               LET a == AfterPipeline(c, r, nextId) IN
               /\ a.resp.status = 500
               /\ a.resp.report.type = "object"
               /\ a.resp.report.keys # {}
               /\ Len(r.reports) > 0 => a.resp.report = r.reports[Len(r.reports)]

\* the text has the line
HasLine(text, line) == \E k \in 1..Len(text) : text[k] = line

\* text is t1, an empty line, t2, an empty line, t3, and t1, t2, t3 open with
\* the headers of tier 1, tier 2 and tier 3
IsTiered(text, t1, t2, t3) ==
    /\ Len(t1) > 0 /\ Len(t2) > 0 /\ Len(t3) > 0
    /\ t1[1] = "### ACTIVE CHARACTERS ###"
    /\ t2[1] = "### RECENT SCENES (WORKING MEMORY) ###"
    /\ t3[1] = "### RELEVANT PAST EVENTS (SEMANTIC MEMORY) ###"
    /\ Len(text) = Len(t1) + Len(t2) + Len(t3) + 2
    /\ SubSeq(text, 1, Len(t1)) = t1
    /\ text[Len(t1) + 1] = ""
    /\ SubSeq(text, Len(t1) + 2, Len(t1) + 1 + Len(t2)) = t2
    /\ text[Len(t1) + Len(t2) + 2] = ""
    /\ SubSeq(text, Len(t1) + Len(t2) + 3, Len(text)) = t3

\* C15: the text assemble_full_context returns, and the context
\* generate_next_scene hands to the Executor, is tier 1, an empty line,
\* tier 2, an empty line, tier 3, in that order, whatever the tiers hold.
C15_FullContextIsTheTiersInOrder ==
    /\ (call.op = "assemble_full_context" /\ call.done)
          => IsTiered(call.out, call.tier_1, call.tier_2, call.tier_3)
    /\ \A i \in Invokers :
           run[i].exec_calls > 0
           => /\ run[i].exec_context = run[i].full_context
              /\ IsTiered(run[i].exec_context, run[i].tier_1_state,
                          run[i].tier_2_memory, run[i].tier_3_episodic)

C15_Witness ==
    /\ call.op = "assemble_full_context" /\ call.done
    /\ HasLine(call.tier_1, "(No character data provided. Infer from user prompt.)")
    /\ HasLine(call.tier_2, "(No previous scenes in this project yet.)")
    /\ HasLine(call.tier_3, "- intent")
    /\ Len(call.out) > 8

\* a occurs in b
IsSubstring(a, b) ==
    \E k \in 1..(Len(b) - Len(a) + 1) : SubSeq(b, k, k + Len(a) - 1) = a

\* a one-line text occurs verbatim in a multi-line text
ContainsText(text, a) == \E k \in 1..Len(text) : IsSubstring(a, text[k])

\* the Character rows whose id is among ids
RowsMatching(ids) ==
    {characters[k] : k \in {j \in 1..Len(characters) :
                               \E n \in 1..Len(ids) : ids[n] = characters[j].id}}

\* C16: build_tier_1_context returns a text whose character section is: the
\* matching Character rows when there are any (then neither the freetext nor
\* the placeholder appears); else the freetext verbatim, without the
\* placeholder, when it is non-empty; else the placeholder.
C16_Tier1Precedence ==
    (call.op = "build_tier_1_context" /\ call.done)
    => LET rows == RowsMatching(call.active_character_ids)
           ft == call.characters_freetext
           given == ft # NoneVal /\ ft # ""
       IN  /\ Len(call.out) > 0
           /\ rows # {}
                => /\ \A ch \in rows : HasLine(call.out, "Name: " \o ch.name)
                   /\ ~HasLine(call.out, "(No character data provided. Infer from user prompt.)")
                   /\ given => ~ContainsText(call.out, ft)
           /\ (rows = {} /\ given)
                => /\ ContainsText(call.out, ft)
                   /\ ~HasLine(call.out, "(No character data provided. Infer from user prompt.)")
           /\ (rows = {} /\ ~given)
                => HasLine(call.out, "(No character data provided. Infer from user prompt.)")

C18_ReadMaxIsUnserialized ==
    [][\A c \in Connections :
          (req[c].pc = "idle" /\ req'[c].pc = "call")
          => LET p == req'[c].project_id
                 m == MaxOf({s.sequence_index : s \in {t \in scenes : t.project_id = p}})
             IN  /\ req'[c].seq_index = m + 1
                 /\ \A d \in Connections \ {c} :
                        (req[d].pc # "idle" /\ req[d].project_id = p /\ req[d].seq_index = m + 1)
                        => req'[c].seq_index = req[d].seq_index]_vars

C18_Witness ==
    /\ req["c1"].pc = "call" /\ req["c1b"].pc = "call"
    /\ req["c1"].project_id = "p1" /\ req["c1b"].project_id = "p1"
    /\ req["c1"].seq_index = req["c1b"].seq_index
    /\ req["c1"].seq_index = 3
    /\ Cardinality(ScenesOf("p1")) = 2

\* the draft is the text LocalLLMClient.generate_scene returns for a failed
\* request
IsExecutorErrorText(draft) == draft.kind = "Error connecting to Local LLM"

\* C19: an Executor transport failure does not abort the run: the attempt's
\* draft is the error text, that text is never handed to commit_scene nor
\* returned as a successful scene, and once the Critic has judged it the
\* attempt is used up (a further attempt or exhaustion follows).
C19_ExecutorErrorTextIsNeverCommitted ==
    \A i \in Invokers :
        LET r == run[i] IN
        \A k \in 1..Len(r.drafts) :
            IsExecutorErrorText(r.drafts[k])
            => /\ ~(r.draft_scene = r.drafts[k] /\ (r.pc = "commit" \/ r.commit_calls > 0))
               /\ ~(r.pc = "returned" /\ r.success /\ r.text = r.drafts[k])
               /\ (Len(r.reports) >= k /\ r.reports[k].type = "object") => r.attempt >= k

\* the store's answer holds no document
NoMatches(results) ==
    \A j \in 1..Len(results.documents) : results.documents[j] = << >>

\* C20: build_tier_3_context is answered with at most 3 matches, returns a
\* text without raising, and whenever the answer holds no matching document
\* (an empty store answers with an empty match list) the text has the
\* "(No relevant past events found.)" placeholder; so has the tier 3 text of a
\* run whose retrieval found the store empty.
C20_NoMatchesGivesPlaceholder ==
    /\ (call.op = "build_tier_3_context" /\ call.done)
          => /\ \A j \in 1..Len(call.results.documents) : Len(call.results.documents[j]) <= 3
             /\ ~call.raised
             /\ call.out # << >>
             /\ NoMatches(call.results)
                   => HasLine(call.out, "(No relevant past events found.)")
    /\ \A i \in Invokers :
           (run[i].tier3_calls > 0 /\ vectors = {})
           => HasLine(run[i].tier_3_episodic, "(No relevant past events found.)")

\* the semantic entries that stand for Scene s: keyed by its identifier
EntriesOf(s) == {v \in vectors : v.id = s.id}

\* the semantic store holds exactly one entry keyed by s.id, with the
\* sequence_index and location of s
HasItsEntry(s) ==
    /\ Cardinality(EntriesOf(s)) = 1
    /\ \A v \in EntriesOf(s) :
           v.sequence_index = s.sequence_index /\ v.location = s.location

\* C21: for every Scene persisted by a successful generation request the
\* semantic store holds exactly one entry keyed by the Scene's identifier
\* (the scene_id returned to the caller), whose metadata sequence_index and
\* location equal the Scene's: for the Scene rows stored, and for the row the
\* handler inserts when generate_next_scene has returned success.
C21_SceneHasItsSemanticEntry ==
    /\ \A s \in scenes : HasItsEntry(s)
    /\ \A i \in Invokers : \A c \in Clients :
           (run[i].pc = "returned" /\ run[i].success)
           => LET a == AfterPipeline(c, run[i], nextId)
              IN  /\ a.resp.status = 200
                  /\ \A s \in a.scenes \ scenes :
                         /\ s.id = a.resp.scene_id
                         /\ \E v \in vectors :
                                v.id = s.id /\ v.id = run[i].scene_id

\* the calls every run starts with, in the order of pipeline.py 38, 44, 50, 62
OpeningCalls ==
    << "build_tier_1_context", "build_tier_2_context", "plan_scene", "build_tier_3_context" >>

\* the call made at position k of trace t is in its place
InPhaseOrder(r, k) ==
    LET t == r.trace IN
    IF k <= 4 THEN t[k] = OpeningCalls[k]
    ELSE CASE t[k] = "generate_scene" ->
                  t[k - 1] \in {"build_tier_3_context", "evaluate_consistency"}
           [] t[k] = "evaluate_consistency" -> t[k - 1] = "generate_scene"
           [] t[k] = "commit_scene" ->
                  /\ t[k - 1] = "evaluate_consistency"
                  /\ k = Len(t)
                  /\ Len(r.reports) = r.critic_calls
                  /\ Approves(r.reports[Len(r.reports)])
           [] OTHER -> FALSE

\* C22: within one run the calls are made in the order tier-1 build, tier-2
\* build, Planner, tier-3 retrieval, then per attempt Executor and Critic,
\* then commit: the Executor is called only after the Planner returned an
\* outline, every Critic call directly follows the Executor call of its
\* attempt and judges that call's draft, and commit_scene is called only
\* directly after a Critic call that approved, as the last call of the run.
C22_PhasesInOrder ==
    \A i \in Invokers :
        LET r == run[i] IN
        /\ \A k \in 1..Len(r.trace) : InPhaseOrder(r, k)
        /\ r.exec_calls > 0
              => /\ r.planner_calls = 1 /\ r.tier3_calls = 1
                 /\ ~plan_scene(r.planner_reply).raised
                 /\ r.outline = plan_scene(r.planner_reply).value
                 /\ r.outline.type = "object" /\ ~Has(r.outline, "error")
        /\ Len(r.judged) = r.critic_calls
        /\ r.critic_calls <= r.exec_calls
        /\ \A j \in 1..Len(r.judged) : r.judged[j] = r.drafts[j]
        /\ r.commit_calls <= 1

C22_Witness ==
    \E i \in Invokers :
        /\ run[i].trace = OpeningCalls \o << "generate_scene", "evaluate_consistency",
                                              "generate_scene", "evaluate_consistency",
                                              "commit_scene" >>
        /\ run[i].pc = "returned" /\ run[i].success
        /\ run[i].judged = run[i].drafts /\ run[i].drafts[1] # run[i].drafts[2]

\* the run of invoker i is past the tier-3 retrieval and takes a step of the
\* same activation
InRetryLoop(i) ==
    /\ run[i].tier3_calls = 1
    /\ run[i].pc \in {"execute", "critique", "commit"}
    /\ run'[i] # run[i]

\* C23: tier 3 is queried once, with the outline's intent_summary, and the
\* full context is assembled once; from then on no step of the run changes
\* the outline, the tier-1 state, the tiers or the full context, whatever
\* drafts and reports came back: every Executor call is given that full
\* context and that outline, the same as the call before it, and every Critic
\* call is given the tier-1 state, not the full context.
C23_RetriesHaveIdenticalInputs ==
    [][\A i \in Invokers :
          InRetryLoop(i)
          => /\ run'[i].tier3_calls = 1
             /\ run[i].tier3_query = IntentOf(run[i].outline)
             /\ run[i].full_context = full_context(run[i].tier_1_state,
                                                   run[i].tier_2_memory,
                                                   run[i].tier_3_episodic)
             /\ run'[i].outline = run[i].outline
             /\ run'[i].tier_1_state = run[i].tier_1_state
             /\ run'[i].tier_2_memory = run[i].tier_2_memory
             /\ run'[i].tier_3_episodic = run[i].tier_3_episodic
             /\ run'[i].full_context = run[i].full_context
             /\ run'[i].exec_calls > run[i].exec_calls
                   => /\ run'[i].exec_context = run[i].full_context
                      /\ run'[i].exec_outline = run[i].outline
                      /\ run[i].exec_calls > 0
                            => /\ run'[i].exec_context = run[i].exec_context
                               /\ run'[i].exec_outline = run[i].exec_outline
             /\ run'[i].critic_calls > run[i].critic_calls
                   => /\ run'[i].critic_state = run[i].tier_1_state
                      /\ run'[i].critic_state # run[i].full_context
                      /\ run'[i].exec_context = run[i].exec_context]_vars

\* a second Executor call has been made after a rejected first draft
C23_Witness ==
    \E i \in Invokers :
        /\ run[i].exec_calls = 2 /\ run[i].critic_calls = 1
        /\ Len(run[i].reports) = 1 /\ ~Approves(run[i].reports[1])
        /\ run[i].exec_context = run[i].full_context
        /\ run[i].full_context # NoText
        /\ run[i].tier3_calls = 1

\* the semantic store holds the entry that commit_scene writes with event e
SemanticEntryOf(e) ==
    \E v \in vectors :
        v.id = e.id /\ v.sequence_index = e.sequence_index /\ v.location = e.location

\* C24: commit_scene stages the timeline record, then attempts the semantic
\* write, and commits the relational transaction only after that write
\* succeeded: every timeline record a session can read has its semantic entry;
\* a failed semantic write leaves neither, and a commit that fails after the
\* semantic write leaves the entry without a record, never the reverse.
C24_TimelineRecordHasSemanticEntry ==
    /\ \A e \in timeline : SemanticEntryOf(e)
    /\ \A i \in Invokers :
           LET r == run[i] IN
           /\ (r.commit_calls > 0 /\ r.commit_outcome = "vector_fail")
                 => /\ ~\E e \in timeline : e.id = r.scene_id
                    /\ ~\E v \in vectors : v.id = r.scene_id
           /\ (r.commit_calls > 0 /\ r.commit_outcome = "db_fail")
                 => /\ ~\E e \in timeline : e.id = r.scene_id
                    /\ \E v \in vectors : v.id = r.scene_id
           /\ (r.commit_calls > 0 /\ r.commit_outcome = "ok")
                 => \E e \in timeline : e.id = r.scene_id /\ SemanticEntryOf(e)

C24_Witness ==
    \E i \in Invokers :
        /\ run[i].commit_calls = 1 /\ run[i].commit_outcome = "ok"
        /\ \E e \in timeline : e.id = run[i].scene_id /\ SemanticEntryOf(e)
        /\ Cardinality(timeline) = Cardinality(vectors)

\* the n Scenes of project_id with the highest sequence_index (all of them
\* when it has fewer): those with fewer than n Scenes of the project above them
TopScenes(project_id, n) ==
    {s \in ScenesOf(project_id) :
        Cardinality({t \in ScenesOf(project_id) : t.sequence_index > s.sequence_index}) < n}

\* q lists the Scenes of S, each once, by rising sequence_index
ListsAscending(q, S) ==
    /\ Len(q) = Cardinality(S)
    /\ {q[j] : j \in 1..Len(q)} = S
    /\ \A j \in 1..(Len(q) - 1) : q[j].sequence_index < q[j + 1].sequence_index

\* the lines of a text that open the entry of a Scene
SceneHeadings(text) ==
    SelectSeq(text, LAMBDA line : IsSubstring("[Scene ", line))

Min(a, b) == IF a < b THEN a ELSE b

\* C25: for a project with at least one Scene, build_tier_2_context(num_scenes)
\* lists exactly the min(num_scenes, count) Scenes of that project with the
\* highest sequence_index, in ascending order, and no Scene of another
\* project; for num_scenes >= 1 its text is the header followed by the
\* entries of those Scenes and nothing else.
C25_Tier2ListsMostRecentScenes ==
    (call.op = "build_tier_2_context" /\ call.done /\ ScenesOf(call.project_id) # {})
    => \E q \in Arrangements(TopScenes(call.project_id, call.num_scenes),
                             Cardinality(TopScenes(call.project_id, call.num_scenes))) :
           /\ ListsAscending(q, TopScenes(call.project_id, call.num_scenes))
           /\ Len(q) = Min(call.num_scenes, Cardinality(ScenesOf(call.project_id)))
           /\ SceneHeadings(call.out) = [j \in 1..Len(q) |-> SceneLines(q[j])[2]]
           /\ call.num_scenes >= 1
                 => call.out = << Tier2Header >>
                                \o Concat([j \in 1..Len(q) |-> SceneLines(q[j])])

\* a window of one on a project that holds two Scenes
C25_Witness ==
    /\ call.op = "build_tier_2_context" /\ call.done
    /\ call.num_scenes = 1
    /\ Cardinality(ScenesOf(call.project_id)) = 2
    /\ Len(SceneHeadings(call.out)) = 1

\* the timeline events committed by the generations made for project_id: in
\* the stores the behaviours start from, a project's generations are those
\* made at its location
EventsCommittedFor(project_id) ==
    {e \in timeline : e.location = LocationIn(project_id)}

\* C26: for a project with no Scenes, build_tier_2_context (num_scenes >= 1)
\* presents the project's timeline events, the most recent num_scenes in
\* chronological order, and gives the "(No previous scenes in this project
\* yet.)" placeholder only if the project has none; so when generations were
\* made for the project and all its Scene rows deleted afterwards, the text
\* lists the events those generations committed.
C26_FallbackPresentsProjectEvents ==
    ( /\ call.op = "build_tier_2_context" /\ call.done
      /\ NonEmptyStr(call.project_id) /\ call.num_scenes >= 1
      /\ ScenesOf(call.project_id) = {} )
    => LET mine == EventsCommittedFor(call.project_id)
       IN  /\ HasLine(call.out, NoPreviousScenes) => mine = {}
           /\ mine # {}
                 => \E q \in Arrangements(mine, Min(call.num_scenes, Cardinality(mine))) :
                        /\ \A j \in 1..(Len(q) - 1) :
                               q[j].sequence_index < q[j + 1].sequence_index
                        /\ \A e \in mine : \A j \in 1..Len(q) :
                               e.sequence_index > q[j].sequence_index
                               => \E m \in 1..Len(q) : q[m] = e
                        /\ call.out = << Tier2Header >>
                                       \o Concat([j \in 1..Len(q) |-> EventLine(q[j])])

\* the step is one of the run of invoker i that builds a tier (pipeline.py
\* 38, 44 and 62)
BuildsTier(i) == run[i].pc \in {"plan", "tier3"} /\ run'[i] # run[i]

\* C27: no step of a generation request, whatever its outcome, changes a
\* Character row or a WorldRule row, and the steps that build the tiers write
\* to no store at all.
C27_PipelineOnlyReadsWorldState ==
    [][/\ characters' = characters
       /\ world_rules' = world_rules
       /\ \A i \in Invokers :
              BuildsTier(i)
              => /\ timeline' = timeline /\ vectors' = vectors
                 /\ scenes' = scenes /\ projects' = projects]_vars

\* a run that read the characters' state into tier 1 and committed its scene
C27_Witness ==
    \E i \in Invokers :
        /\ run[i].pc = "returned" /\ run[i].success
        /\ run[i].commit_calls = 1 /\ timeline # {}
        /\ ContainsText(run[i].tier_1_state, "Name: Ana")
        /\ ContainsText(run[i].tier_1_state, "Magic costs blood.")
        /\ characters \in WorldCharacterTables

\* the step answers a request for project_id with log entry (op, status)
Answers(op, project_id, status) ==
    /\ Len(log') = Len(log) + 1
    /\ log'[Len(log')].op = op
    /\ log'[Len(log')].project_id = project_id
    /\ log'[Len(log')].status = status
    /\ \E p \in projects :
           p.id = project_id /\ p.user_id = UserOf(log'[Len(log')].client)

\* a successful run returning to the handler of client c
ReturnsSuccess(c) ==
    Return(run[c], TRUE, Draft("prose", 1),
           Json("object", {"approved"}, "true", NoneVal, NoneVal, NoneVal))

\* C28: a Scene is immutable once created: no step (generation requests,
\* listing, project creation or deletion, scene deletion) leaves a row with a
\* stored Scene's id and other values; a stored Scene is gone after a step only
\* if the step is its project's owner deleting a Scene of the project or the
\* project; and the row a successful generation inserts is added to the rows
\* already there, which stay as they are.
C28_SceneIsImmutable ==
    [][/\ \A s \in scenes :
              /\ \A t \in scenes' : t.id = s.id => t = s
              /\ s \notin scenes'
                    => \/ Answers("delete_scene", s.project_id, 204)
                       \/ Answers("delete_project", s.project_id, 204)
       /\ \A c \in Clients :
              LET a == AfterPipeline(c, ReturnsSuccess(c), nextId)
              IN  /\ scenes \subseteq a.scenes
                  /\ \A t \in a.scenes \ scenes : \A s \in scenes : t.id # s.id]_vars

\* a Scene is still stored, unchanged, after a generation request, a listing
\* and a deletion of another Scene have been answered
C28_Witness ==
    /\ Len(log) = MaxSceneRequests
    /\ \E j, k \in 1..Len(log) :
           /\ log[j].op = "delete_scene" /\ log[j].status = 204
           /\ log[k].op \in {"generate_scene", "list_scenes", "create_project"}
    /\ \E s \in scenes : s \in StoredScenes(InitScenes)

\* every call the run made on the Planner, the Critic and the stores returned
\* (the Executor's adapter always returns)
EveryCallReturned(r) ==
    /\ r.planner_calls > 0 => ~plan_scene(r.planner_reply).raised
    /\ \A k \in 1..Len(r.critic_kinds) : r.critic_kinds[k] # "transport"
    /\ r.commit_calls > 0 => r.commit_outcome = "ok"

\* C29: when every Planner, Executor, Critic and store call returns, a run of
\* generate_next_scene ends in DONE (success) or FAILED, whatever the Critic's
\* verdicts, after exactly one Planner call and at most max_retries Executor
\* calls, each made after the one before it was judged.
C29_BoundedTermination ==
    \A i \in Invokers :
        LET r == run[i] IN
        EveryCallReturned(r)
        => /\ r.exec_calls <= r.max_retries
           /\ r.critic_calls <= r.exec_calls /\ r.exec_calls <= r.critic_calls + 1
           /\ r.planner_calls <= 1
           /\ r.pc \notin {"idle", "plan"} => r.planner_calls = 1
           /\ r.pc # "raised"

\* the handler of connection c makes its call of generate_next_scene
CallsPipeline(c) == req[c].pc = "call" /\ req'[c] # req[c]

\* C30: a POST /generate_scene for an owned project, with no matching
\* Character rows and a non-empty characters_freetext, runs the pipeline, and
\* the tier-1 state given to the Planner, the Executor and the Critic holds
\* that freetext, not the "(No character data provided...)" placeholder.
C30_FreetextReachesTier1 ==
    [][\A c \in Connections :
          /\ (CallsPipeline(c) /\ MatchingCharacters(run[c].active_characters) = << >>)
                => /\ req'[c].pc = "await"
                   /\ run'[c].pc = "plan"
          /\ run[c].planner_calls > 0
                => /\ HasLine(run[c].tier_1_state, Strip(RequestFreetext))
                   /\ ~HasLine(run[c].tier_1_state, NoCharacterData)]_vars

\* the step answers a DELETE /projects/{project_id} with log entry e
AnswersDeleteProject(e) ==
    /\ Len(log') = Len(log) + 1
    /\ e = log'[Len(log')]
    /\ e.op = "delete_project"

\* C31: a delete_project that succeeds for project P leaves no Scene row of P
\* and leaves the Scenes of every other project as they were (no row added,
\* none removed); a delete_project naming a project that does not exist or
\* belongs to another user is answered 404 and removes no project and no
\* Scene.
C31_DeleteProjectCascades ==
    [][\A e \in {log'[k] : k \in (Len(log) + 1)..Len(log')} :
          AnswersDeleteProject(e)
          => IF \E p \in projects : p.id = e.project_id /\ p.user_id = UserOf(e.client)
             THEN /\ e.status = 204
                  /\ ~\E p \in projects' : p.id = e.project_id
                  /\ ~\E s \in scenes' : s.project_id = e.project_id
                  /\ {s \in scenes' : s.project_id # e.project_id}
                        = {s \in scenes : s.project_id # e.project_id}
                  /\ projects' \subseteq projects
             ELSE /\ e.status = 404
                  /\ resp'[e.client].detail = "Project not found"
                  /\ scenes' = scenes /\ projects' = projects]_vars

\* user u2 deleted its project while p1 held Scenes, then u1 deleted p1 and
\* its Scenes with it
C31_Witness ==
    /\ Len(log) = 2
    /\ log[1].op = "delete_project" /\ log[1].project_id = "p2" /\ log[1].status = 204
    /\ log[2].op = "delete_project" /\ log[2].project_id = "p1" /\ log[2].status = 204
    /\ "p1" \in deleted
    /\ scenes = {} /\ projects = {}

\* no two Scene rows carry the same (project_id, sequence_index)
NoDuplicateIndex ==
    \A s, t \in scenes :
        (s.project_id = t.project_id /\ s.sequence_index = t.sequence_index) => s = t

\* connection c and another connection hold requests for the same project
\* that were assigned the same index, both with collaborators that let the
\* generation through
SharesIndex(c) ==
    /\ req[c].pc # "idle" /\ req[c].healthy
    /\ \E d \in Connections \ {c} :
           /\ req[d].pc # "idle" /\ req[d].healthy
           /\ req[d].project_id = req[c].project_id
           /\ req[d].seq_index = req[c].seq_index

\* C32: under any interleaving of concurrent generation requests the Scene
\* table never holds two rows with the same (project_id, sequence_index); of
\* two requests that were assigned the same index, one that is answered has
\* either inserted its Scene row or failed at its Scene insert, where the
\* unique constraint rejects the duplicate.
C32_NoDuplicateIndexUnderRaces ==
    [][/\ NoDuplicateIndex
       /\ \A c \in Connections :
              (SharesIndex(c) /\ req'[c].pc = "idle")
              => /\ req[c].pc = "await"
                 /\ run[c].pc = "returned" /\ run[c].success
                 /\ \/ resp'[c].status = 200 /\ scenes' # scenes
                    \/ resp'[c].status = 500 /\ scenes' = scenes
                       /\ \E s \in scenes : s.project_id = req[c].project_id
                                            /\ s.sequence_index = req[c].seq_index]_vars

\* what the two stores of commit_scene hold under scene_id
EventsOf(scene_id) == {e \in timeline : e.id = scene_id}
SemanticEntriesOf(scene_id) == {v \in vectors : v.id = scene_id}

\* the run ended without reporting success: it returned False or raised
EndedWithoutSuccess(r) == Terminal(r) /\ ~(r.pc = "returned" /\ r.success)

\* C33: a generation that ended without success has left no timeline event
\* and no semantic entry behind, and one that reported success has left
\* exactly one of each, for which the handler persists exactly one Scene row.
C33_StoresAgreeAfterGeneration ==
    \A i \in Invokers :
        LET r == run[i] IN
        /\ (EndedWithoutSuccess(r) /\ r.scene_id # 0)
              => EventsOf(r.scene_id) = {} /\ SemanticEntriesOf(r.scene_id) = {}
        /\ (r.pc = "returned" /\ r.success)
              => /\ Cardinality(EventsOf(r.scene_id)) = 1
                 /\ Cardinality(SemanticEntriesOf(r.scene_id)) = 1
                 /\ \A c \in Clients :
                        LET a == AfterPipeline(c, r, nextId)
                        IN  a.resp.status = 200
                            /\ Cardinality(a.scenes \ scenes) = 1

\* C34: whenever commit_scene raises, because the semantic write failed or
\* because the relational commit failed after the semantic write, neither
\* store retains the scene: no timeline event and no semantic entry carries
\* its scene_id.
C34_FailedCommitLeavesNothing ==
    \A i \in Invokers :
        (run[i].commit_calls > 0 /\ run[i].commit_outcome # "ok")
        => /\ run[i].pc = "raised"
           /\ ~\E e \in timeline : e.id = run[i].scene_id
           /\ ~\E v \in vectors : v.id = run[i].scene_id

\* the lines of a tier-3 text that present a recalled summary
RecalledLines(text) == SelectSeq(text, LAMBDA line : IsSubstring("- ", line))

\* C35: the tier-3 context built for project P contains only summaries that
\* generations of project P committed: no summary committed for another
\* project, and none at all once P holds no Scene (its Scenes were deleted,
\* or it never had one).
C35_RecallIsolatedPerProject ==
    (call.op = "build_tier_3_context" /\ call.done /\ NonEmptyStr(call.project_id))
    => \A k \in 1..Len(RecalledLines(call.out)) :
           /\ RecalledLines(call.out)[k] = "- " \o SummaryIn(call.project_id)
           /\ ScenesOf(call.project_id) # {}

\* the activation has ended in FAILED: generate_next_scene returned False
EndedFailed(r) == r.pc = "returned" /\ ~r.success

\* C36: a generation request that ends in FAILED (the Planner's reply is an
\* error, or every attempt was rejected) leaves the Scene table, the timeline
\* and the semantic store as they were: every step of an activation that has
\* made no commit_scene call leaves the three stores unchanged, and an
\* activation that ends in FAILED has made no commit_scene call.
C36_FailedRequestChangesNoStore ==
    [][\A i \in Invokers :
           run'[i] # run[i]
           => /\ run'[i].commit_calls = 0
                 => (scenes' = scenes /\ timeline' = timeline /\ vectors' = vectors)
              /\ EndedFailed(run'[i]) => run'[i].commit_calls = 0]_vars

\* an activation ended in FAILED after the Critic rejected every attempt
C36_Witness ==
    \E i \in Invokers :
        /\ EndedFailed(run[i])
        /\ run[i].max_retries > 0
        /\ run[i].critic_calls = run[i].max_retries
        /\ run[i].commit_calls = 0

\* the Scene rows the handler of request c inserts once generate_next_scene,
\* called with the request's effective location, has returned success
RowsInsertedFor(c) ==
    LET r == Return(Enter(DefaultMaxRetries, req[c].effective_location),
                    TRUE, EmptyText, EmptyDict)
    IN  AfterPipeline(c, r, nextId).scenes \ scenes

\* C37: the location of a generated scene is never blank and is the same
\* everywhere: the Scene row of a request carries the request's effective
\* location ('Unspecified' when the request's location is empty or
\* whitespace), the one given to tier 1 and recorded on the timeline event
\* and the semantic metadata.
C37_LocationNeverBlankAndSame ==
    \A c \in Clients :
        req[c].pc \in {"call", "await"}
        => /\ Strip(req[c].effective_location) # ""
           /\ \A s \in RowsInsertedFor(c) :
                  /\ Strip(s.location) # ""
                  /\ s.location = req[c].effective_location

====
